---- MODULE Spec2Model ----
(***************************************************************************)
(* Yoswit <-> Homebridge MQTT bridge: device registry construction         *)
(* (DeviceService.fromAfterLoginResp), BLE status decoding and write       *)
(* command encoding, and the embedded broker's event handlers with the     *)
(* BLE replay cache (AedesService).                                        *)
(*                                                                         *)
(* JavaScript strings are modelled as sequences of one-character strings,  *)
(* so that slice / substring / startsWith / parseInt / toString operate on *)
(* characters as the code does.                                            *)
(***************************************************************************)
EXTENDS Integers, Sequences, FiniteSets, TLC

VARIABLES
    snapshot,        \* the afterLogin response handed to fromAfterLoginResp
    devices,         \* DeviceService.devices, in insertion order
    phase,           \* position of the process / of the function under check
    bleDeviceCache,  \* AedesService.bleDeviceCache, a Map in insertion order
    published,       \* aedes.publish calls issued by the handler that ran last
    lastEvent,       \* the broker event that handler was invoked for
    frames,          \* history: payloads received on the BLE ingress topic
    arg,             \* input of the decoder / encoder under check
    ret,             \* its result
    tasks,           \* hub command handlers suspended at an await, oldest first
    cloudPublished,  \* history: client.publish calls issued by MqttService
    commands         \* number of publishes received on the hub command topic

vars == <<snapshot, devices, phase, bleDeviceCache, published, lastEvent,
          frames, arg, ret, tasks, cloudPublished, commands>>

----------------------------------------------------------------------------
(* JavaScript values                                                       *)

\* The number NaN (parseInt / Number on an unparsable string).
NaN == -1000000

\* The value undefined, where a string is expected.
Undef == <<"undefined">>

\* !x for a string-or-undefined x.
Falsy(x) == x = Undef \/ x = <<>>

Min(a, b) == IF a < b THEN a ELSE b

Max(a, b) == IF a > b THEN a ELSE b

DecDigits == <<"0", "1", "2", "3", "4", "5", "6", "7", "8", "9">>

HexDigitsUpper == DecDigits \o <<"A", "B", "C", "D", "E", "F">>

HexDigitsLower == DecDigits \o <<"a", "b", "c", "d", "e", "f">>

IsHexDigit(c) == \E i \in 1..16 : HexDigitsUpper[i] = c \/ HexDigitsLower[i] = c

HexVal(c) == (CHOOSE i \in 1..16 : HexDigitsUpper[i] = c \/ HexDigitsLower[i] = c) - 1

IsDecDigit(c) == \E i \in 1..10 : DecDigits[i] = c

\* String.prototype.slice(start, end) with negative offsets counted from the end.
Slice(s, start, end) ==
    LET n  == Len(s)
        from == IF start < 0 THEN Max(n + start, 0) ELSE Min(start, n)
        to   == IF end < 0 THEN Max(n + end, 0) ELSE Min(end, n)
    IN  IF from >= to THEN <<>> ELSE SubSeq(s, from + 1, to)

\* String.prototype.slice(start).
SliceFrom(s, start) == Slice(s, start, Len(s))

\* String.prototype.substring(start, end) for 0 <= start <= end.
Substring(s, start, end) == Slice(s, start, end)

StartsWith(s, p) == Len(s) >= Len(p) /\ SubSeq(s, 1, Len(p)) = p

\* String.prototype.includes(p).
Includes(s, p) ==
    \E i \in 0..Len(s) : i + Len(p) <= Len(s) /\ SubSeq(s, i + 1, i + Len(p)) = p

RECURSIVE Reverse(_)
Reverse(s) == IF s = <<>> THEN <<>> ELSE Reverse(Tail(s)) \o <<Head(s)>>

RECURSIVE PadStart(_, _, _)
PadStart(s, n, c) == IF Len(s) >= n THEN s ELSE PadStart(<<c>> \o s, n, c)

RECURSIVE TrimStart(_)
TrimStart(s) == IF s # <<>> /\ Head(s) = " " THEN TrimStart(Tail(s)) ELSE s

Trim(s) == Reverse(TrimStart(Reverse(TrimStart(s))))

RECURSIVE ToLowerCase(_)
ToLowerCase(s) ==
    IF s = <<>> THEN <<>>
    ELSE LET c == Head(s)
             l == IF \E i \in 11..16 : HexDigitsUpper[i] = c
                  THEN HexDigitsLower[CHOOSE i \in 11..16 : HexDigitsUpper[i] = c]
                  ELSE c
         IN  <<l>> \o ToLowerCase(Tail(s))

RECURSIVE ToUpperCase(_)
ToUpperCase(s) ==
    IF s = <<>> THEN <<>>
    ELSE LET c == Head(s)
             u == IF \E i \in 11..16 : HexDigitsLower[i] = c
                  THEN HexDigitsUpper[CHOOSE i \in 11..16 : HexDigitsLower[i] = c]
                  ELSE c
         IN  <<u>> \o ToUpperCase(Tail(s))

\* The digits of a non-negative integer in the given radix, lowercase.
RECURSIVE Digits(_, _)
Digits(n, radix) ==
    IF n < radix THEN <<HexDigitsLower[n + 1]>>
    ELSE Digits(n \div radix, radix) \o <<HexDigitsLower[(n % radix) + 1]>>

\* Number.prototype.toString(radix).
NumToString(n, radix) ==
    IF n = NaN THEN <<"N", "a", "N">>
    ELSE IF n < 0 THEN <<"-">> \o Digits(0 - n, radix)
    ELSE Digits(n, radix)

\* The value of the longest prefix of s made of digits of the radix, from acc.
RECURSIVE DigitRun(_, _, _)
DigitRun(s, radix, acc) ==
    IF s # <<>> /\ IsHexDigit(Head(s)) /\ HexVal(Head(s)) < radix
    THEN DigitRun(Tail(s), radix, acc * radix + HexVal(Head(s)))
    ELSE acc

HasDigit(s, radix) == s # <<>> /\ IsHexDigit(Head(s)) /\ HexVal(Head(s)) < radix

\* parseInt(s, 16): leading blanks skipped, an optional sign, an optional 0x,
\* then the longest run of hex digits; NaN when that run is empty.
parseInt16(s) ==
    LET t    == TrimStart(s)
        neg  == t # <<>> /\ Head(t) = "-"
        u    == IF neg THEN Tail(t) ELSE t
        v    == IF Len(u) >= 2 /\ u[1] = "0" /\ u[2] \in {"x", "X"}
                THEN SubSeq(u, 3, Len(u)) ELSE u
    IN  IF ~HasDigit(v, 16) THEN NaN
        ELSE IF neg THEN 0 - DigitRun(v, 16, 0) ELSE DigitRun(v, 16, 0)

\* parseInt(s, 2) of a string of binary digits.
parseInt2(s) == DigitRun(s, 2, 0)

\* Number(s) for the strings drawn here: blanks trimmed, "" is 0, an optional
\* sign followed by decimal digits only is that integer, anything else NaN.
Number(s) ==
    LET t   == Trim(s)
        neg == t # <<>> /\ Head(t) = "-"
        u   == IF neg THEN Tail(t) ELSE t
    IN  IF t = <<>> THEN 0
        ELSE IF u = <<>> \/ \E i \in 1..Len(u) : ~IsDecDigit(u[i]) THEN NaN
        ELSE IF neg THEN 0 - DigitRun(u, 10, 0) ELSE DigitRun(u, 10, 0)

\* Mutant of ScaleTo100: truncation instead of rounding to nearest.
ScaleTo100Truncated(x) == (100 * x) \div 255

\* Math.round((x / 255) * 100): never a tie, since 40x = 51(2k+1) has no solution.
ScaleTo100(x) == (200 * x + 255) \div 510

\* Math.round((b / 100) * 255): ties (b = 10, 30, 50, 70, 90) round up.
ScaleTo255(b) == (510 * b + 100) \div 200

----------------------------------------------------------------------------
(* Devices                                                                 *)

SWITCH == "SWITCH"

DIMMING == "DIMMING"

\* `${a}-${index}`: template-literal conversion of a string-or-undefined.
TemplateStr(x) == IF x = Undef THEN <<"u", "n", "d", "e", "f", "i", "n", "e", "d">> ELSE x

\* The Device object literal built by fromAfterLoginResp.
Device(guid, name, type, index, macAddress, gatewayId) ==
    [id         |-> TemplateStr(guid) \o <<"-">> \o NumToString(index, 10),
     guid       |-> guid,
     name       |-> name,
     type       |-> type,
     index      |-> index,
     macAddress |-> macAddress,
     gatewayId  |-> gatewayId]

----------------------------------------------------------------------------
(* BLE status decoding (AedesService)                                      *)

\* options.homebridgeMqtt.topicPrefix and the topics the handlers compare and build.
TopicPrefix == "homebridge"

ToSetTopic == "homebridge/to/set"

ToAddTopic == "homebridge/to/add"

ToWildcardTopic == "homebridge/to/#"

FromSetTopic == "homebridge/from/set"

BleTopic == "yoswit/ble/devices"

\* JSON.stringify of a boolean or of a finite number.
JsonBool(b) == IF b THEN <<"t", "r", "u", "e">> ELSE <<"f", "a", "l", "s", "e">>

JsonNum(n) == NumToString(n, 10)

\* The packet setCharacteristic hands to aedes.publish.
setCharacteristic(device, characteristic, value) ==
    [topic          |-> ToSetTopic,
     name           |-> device.id,
     characteristic |-> characteristic,
     value          |-> value,
     qos            |-> 1,
     retain         |-> FALSE]

\* statusInt.toString(2).padStart(4, "0").slice(0, -1).split("").reverse()
lightStatesOf(status) ==
    Reverse(Slice(PadStart(NumToString(parseInt16(status), 2), 4, "0"), 0, -1))

\* handleSwitchBLEData: the publishes issued for one device and one tail.
handleSwitchBLEData(device, data) ==
    LET status      == SliceFrom(data, -1)
        lightStates == lightStatesOf(status)
        k           == device.index - 1
    IN  IF device.type # SWITCH THEN <<>>
        ELSE IF device.index = NaN \/ k < 0 \/ k >= Len(lightStates) THEN <<>>
        ELSE <<setCharacteristic(device, "On", JsonBool(lightStates[k + 1] = "1"))>>

\* handleDimmingBLEData: the publishes issued for one device and one tail.
handleDimmingBLEData(device, data) ==
    LET brightnessHex == Substring(data, 4, 6)
        parsed        == parseInt16(brightnessHex)
        brightness    == ScaleTo100(parsed)
    IN  IF Len(data) < 6 THEN <<>>
        ELSE IF parsed = NaN THEN <<>>
        ELSE <<setCharacteristic(device, "Brightness", JsonNum(brightness)),
               setCharacteristic(device, "On", JsonBool(brightness > 0))>>

----------------------------------------------------------------------------
(* Write command encoding (DeviceService)                                  *)

\* md5 (hex digest of the input): an injective tagging stands for the hash.
md5(input) == <<"md5:">> \o input

\* Mutant of CmdTopic: the hash applied once.
CmdTopicOnce(gatewayId) == <<"c", "m", "d", "/">> \o md5(gatewayId)

\* `cmd/${await md5(await md5(gatewayId))}`
CmdTopic(gatewayId) == <<"c", "m", "d", "/">> \o md5(md5(gatewayId))

\* macAddress.split(":"): the pieces between colons.
RECURSIVE SplitColon(_, _)
SplitColon(s, cur) ==
    IF s = <<>> THEN <<cur>>
    ELSE IF Head(s) = ":" THEN <<cur>> \o SplitColon(Tail(s), <<>>)
    ELSE SplitColon(Tail(s), cur \o <<Head(s)>>)

\* Array.prototype.join("") of an array of strings.
RECURSIVE Join(_)
Join(a) == IF a = <<>> THEN <<>> ELSE Head(a) \o Join(Tail(a))

\* macAddress.split(":").reverse().join("")
reversedMacOf(macAddress) == Join(Reverse(SplitColon(macAddress, <<>>)))

\* bits[k] = 1 on a JavaScript array: an index in range overwrites, an index
\* past the end grows the array leaving holes (joined as ""), a negative or
\* NaN index only sets a property and leaves the elements alone.
ArraySet(a, k) ==
    IF k = NaN \/ k < 0 THEN a
    ELSE [i \in 1..Max(Len(a), k + 1) |->
            IF i = k + 1 THEN <<"1">> ELSE IF i <= Len(a) THEN a[i] ELSE <<>>]

\* Mutant of switchDataOf: the channel index written as a hex digit instead of
\* as a bit (the first draft of switchDevice).
switchDataByIndexDigit(position, isOn) ==
    NumToString(position, 16) \o (IF isOn THEN NumToString(position, 16) ELSE <<"0">>)

\* The data byte of switchDevice: bits, join, parseInt(.., 2), toString(16),
\* toUpperCase, padStart(2, "0").
switchDataOf(position, isOn) ==
    LET zero == [i \in 1..8 |-> <<"0">>]
        b1   == ArraySet(zero, IF position = NaN THEN NaN ELSE 4 - position)
        bits == IF isOn THEN ArraySet(b1, IF position = NaN THEN NaN ELSE 8 - position)
                ELSE b1
    IN  PadStart(ToUpperCase(NumToString(parseInt2(Join(bits)), 16)), 2, "0")

\* Mutant of dimmingDataOf: the padStart(2, "0") left out.
dimmingDataUnpadded(brightness) ==
    ToUpperCase(NumToString(ScaleTo255(brightness), 16))

\* The data byte of dimmingDevice: round, toString(16), padStart(2, "0"), toUpperCase.
dimmingDataOf(brightness) ==
    IF brightness = NaN THEN ToUpperCase(PadStart(NumToString(NaN, 16), 2, "0"))
    ELSE ToUpperCase(PadStart(NumToString(ScaleTo255(brightness), 16), 2, "0"))

\* The cloud "perform write" publish both encoders hand to mqttService.publish.
WriteCommand(device, value) ==
    [topic       |-> CmdTopic(device.gatewayId),
     guid        |-> device.guid,
     mac_address |-> device.macAddress,
     service_id  |-> "ff80",
     char_id     |-> "ff81",
     value       |-> value]

Thrown(msg) == [error |-> msg]

IsThrown(r) == "error" \in DOMAIN r

\* devices[id] on the registry (a sequence in insertion order): the device or none.
Lookup(devs, id) ==
    IF \E i \in 1..Len(devs) : devs[i].id = id
    THEN <<devs[CHOOSE i \in 1..Len(devs) : devs[i].id = id]>>
    ELSE <<>>

\* Mutant of switchDevice: the check of the device type left out.
switchDeviceUnchecked(devs, id, on) ==
    LET found == Lookup(devs, id)
    IN  IF found = <<>> THEN Thrown("not found")
        ELSE IF found[1].macAddress = Undef THEN Thrown("TypeError")
        ELSE WriteCommand(found[1],
                 <<"0", "2">> \o reversedMacOf(found[1].macAddress)
                     \o <<"8", "0", "0", "0">> \o switchDataOf(found[1].index, on)
                     \o <<"0", "0">>)

\* switchDevice(id, on) on registry devs: the command it publishes, or the error thrown.
switchDevice(devs, id, on) ==
    LET found == Lookup(devs, id)
    IN  IF found = <<>> THEN Thrown("not found")
        ELSE IF found[1].type # SWITCH THEN Thrown("not a switch")
        ELSE IF found[1].macAddress = Undef THEN Thrown("TypeError")
        ELSE WriteCommand(found[1],
                 <<"0", "2">> \o reversedMacOf(found[1].macAddress)
                     \o <<"8", "0", "0", "0">> \o switchDataOf(found[1].index, on)
                     \o <<"0", "0">>)

\* dimmingDevice(id, brightness) on registry devs.
dimmingDevice(devs, id, brightness) ==
    LET found == Lookup(devs, id)
    IN  IF found = <<>> THEN Thrown("not found")
        ELSE IF found[1].type # DIMMING THEN Thrown("not a dimming device")
        ELSE IF found[1].macAddress = Undef THEN Thrown("TypeError")
        ELSE WriteCommand(found[1],
                 <<"0", "2">> \o reversedMacOf(found[1].macAddress)
                     \o <<"8", "9", "0", "0">> \o dimmingDataOf(brightness))

----------------------------------------------------------------------------
(* Hub commands (AedesService.handlePublish, handleHomebridgeSetMessage)   *)

\* Values JSON.parse returns, tagged with their typeof; undefined is what a
\* property read yields when the property is absent.
JsUndefined == [t |-> "undefined", v |-> <<>>]

JsNull == [t |-> "null", v |-> <<>>]

JsString(s) == [t |-> "string", v |-> s]

JsNumber(n) == [t |-> "number", v |-> n]

JsBoolean(b) == [t |-> "boolean", v |-> b]

\* An object: its members in order, each [key, value].
JsObject(members) == [t |-> "object", v |-> members]

\* The SyntaxError JSON.parse throws.
SyntaxError == [t |-> "SyntaxError", v |-> <<>>]

ParseFail == [ok |-> FALSE, value |-> JsUndefined, rest |-> <<>>]

ParseOk(value, rest) == [ok |-> TRUE, value |-> value, rest |-> rest]

\* The position of the first double quote of s at or after position i, 0 if none.
RECURSIVE IndexOfQuote(_, _)
IndexOfQuote(s, i) ==
    IF i > Len(s) THEN 0
    ELSE IF s[i] = "\"" THEN i
    ELSE IndexOfQuote(s, i + 1)

\* A JSON string (without escapes) at the head of s.
ParseString(s) ==
    LET close == IndexOfQuote(s, 2)
    IN  IF s = <<>> \/ Head(s) # "\"" \/ close = 0 THEN ParseFail
        ELSE IF \E i \in 2..(close - 1) : s[i] = "\\" THEN ParseFail
        ELSE ParseOk(JsString(SubSeq(s, 2, close - 1)), SubSeq(s, close + 1, Len(s)))

RECURSIVE DigitCount(_)
DigitCount(s) == IF s # <<>> /\ IsDecDigit(Head(s)) THEN 1 + DigitCount(Tail(s)) ELSE 0

\* A JSON integer at the head of s: an optional minus, then 0 or a run of
\* digits that does not start with 0.
ParseNumber(s) ==
    LET neg == s # <<>> /\ Head(s) = "-"
        u   == IF neg THEN Tail(s) ELSE s
        n   == DigitCount(u)
        abs == DigitRun(SubSeq(u, 1, n), 10, 0)
    IN  IF n = 0 \/ (n > 1 /\ u[1] = "0") THEN ParseFail
        ELSE ParseOk(JsNumber(IF neg THEN 0 - abs ELSE abs), SubSeq(u, n + 1, Len(u)))

\* A JSON literal, string or integer at the head of s.
ParseScalar(s) ==
    IF StartsWith(s, <<"t", "r", "u", "e">>)
    THEN ParseOk(JsBoolean(TRUE), SubSeq(s, 5, Len(s)))
    ELSE IF StartsWith(s, <<"f", "a", "l", "s", "e">>)
    THEN ParseOk(JsBoolean(FALSE), SubSeq(s, 6, Len(s)))
    ELSE IF StartsWith(s, <<"n", "u", "l", "l">>)
    THEN ParseOk(JsNull, SubSeq(s, 5, Len(s)))
    ELSE IF s # <<>> /\ Head(s) = "\"" THEN ParseString(s)
    ELSE ParseNumber(s)

\* The members of a JSON object after its opening brace, up to the closing one.
RECURSIVE ParseMembers(_, _)
ParseMembers(s, members) ==
    LET k    == ParseString(s)
        v    == ParseScalar(Tail(k.rest))
        more == Append(members, [key |-> k.value.v, value |-> v.value])
    IN  IF ~k.ok \/ k.rest = <<>> \/ Head(k.rest) # ":" THEN ParseFail
        ELSE IF ~v.ok \/ v.rest = <<>> THEN ParseFail
        ELSE IF Head(v.rest) = "}" THEN ParseOk(JsObject(more), Tail(v.rest))
        ELSE IF Head(v.rest) = "," THEN ParseMembers(Tail(v.rest), more)
        ELSE ParseFail

\* JSON.parse(text) for texts without white space, escapes, fractions, arrays
\* or nested objects: the value, or the SyntaxError thrown.
JsonParse(text) ==
    LET r == IF text # <<>> /\ Head(text) = "{"
             THEN IF Len(text) >= 2 /\ text[2] = "}"
                  THEN ParseOk(JsObject(<<>>), SubSeq(text, 3, Len(text)))
                  ELSE ParseMembers(Tail(text), <<>>)
             ELSE ParseScalar(text)
    IN  IF r.ok /\ r.rest = <<>> THEN r.value ELSE SyntaxError

\* payload[key] for one of the keys name, characteristic, value: the last
\* member with that key of an object, undefined on anything else.
Get(payload, key) ==
    IF payload.t # "object" THEN JsUndefined
    ELSE IF \E i \in 1..Len(payload.v) : payload.v[i].key = key
    THEN payload.v[CHOOSE i \in 1..Len(payload.v) :
                      /\ payload.v[i].key = key
                      /\ \A j \in (i + 1)..Len(payload.v) : payload.v[j].key # key].value
    ELSE JsUndefined

\* The property key devices[x] converts x to.
ToPropertyKey(x) ==
    CASE x.t = "string"  -> x.v
      [] x.t = "number"  -> NumToString(x.v, 10)
      [] x.t = "boolean" -> JsonBool(x.v)
      [] x.t = "null"    -> <<"n", "u", "l", "l">>
      [] OTHER           -> <<"u", "n", "d", "e", "f", "i", "n", "e", "d">>

\* The truth value of x in  if (isOn)  and  payload.value ? 100 : 0.
Truthy(x) ==
    CASE x.t = "boolean" -> x.v
      [] x.t = "number"  -> x.v # 0 /\ x.v # NaN
      [] x.t = "string"  -> x.v # <<>>
      [] x.t = "object"  -> TRUE
      [] OTHER           -> FALSE

\* Number(x), as handleHomebridgeSetMessage applies it to payload.value.
ToNumber(x) ==
    CASE x.t = "number"  -> x.v
      [] x.t = "boolean" -> IF x.v THEN 1 ELSE 0
      [] x.t = "string"  -> Number(x.v)
      [] x.t = "null"    -> 0
      [] OTHER           -> NaN

\* How one handlePublish call on the command topic ends: "command" with the
\* write command its encoder goes on to publish, "ignored" (logged, nothing
\* sent), "caught" (the encoder threw and the catch logged it), or "rejected"
\* (an exception outside every try: the listener's promise rejects unhandled).
Outcome(kind, cmd) == [kind |-> kind, cmd |-> cmd]

\* After an encoder call inside the try: its command, or the caught error.
Settle(r) == IF IsThrown(r) THEN Outcome("caught", <<>>) ELSE Outcome("command", <<r>>)

\* Mutant of handleHomebridgeSetMessage: the switch on the characteristic has
\* no default branch of its own, every characteristic but Brightness is
\* handled as On.
handleSetMessageDefaultOn(devs, payload) ==
    LET name           == ToPropertyKey(Get(payload, <<"n", "a", "m", "e">>))
        found          == Lookup(devs, name)
        characteristic == Get(payload, <<"c", "h", "a", "r", "a", "c", "t", "e", "r", "i", "s", "t", "i", "c">>)
        value          == Get(payload, <<"v", "a", "l", "u", "e">>)
    IN  IF payload.t = "null" THEN Outcome("rejected", <<>>)
        ELSE IF found = <<>> THEN Outcome("ignored", <<>>)
        ELSE IF characteristic.t = "string"
                /\ characteristic.v = <<"B", "r", "i", "g", "h", "t", "n", "e", "s", "s">>
        THEN IF found[1].type # DIMMING THEN Outcome("ignored", <<>>)
             ELSE Settle(dimmingDevice(devs, name, ToNumber(value)))
        ELSE IF found[1].type = SWITCH
        THEN Settle(switchDevice(devs, name, Truthy(value)))
        ELSE Settle(dimmingDevice(devs, name, IF Truthy(value) THEN 100 ELSE 0))

\* Mutant of handleHomebridgeSetMessage: an On command calls switchDevice
\* whatever the type of the device.
handleSetMessageOnAsSwitch(devs, payload) ==
    LET name           == ToPropertyKey(Get(payload, <<"n", "a", "m", "e">>))
        found          == Lookup(devs, name)
        characteristic == Get(payload, <<"c", "h", "a", "r", "a", "c", "t", "e", "r", "i", "s", "t", "i", "c">>)
        value          == Get(payload, <<"v", "a", "l", "u", "e">>)
    IN  IF payload.t = "null" THEN Outcome("rejected", <<>>)
        ELSE IF found = <<>> THEN Outcome("ignored", <<>>)
        ELSE IF characteristic.t = "string" /\ characteristic.v = <<"O", "n">>
        THEN IF found[1].type # SWITCH /\ found[1].type # DIMMING
             THEN Outcome("ignored", <<>>)
             ELSE Settle(switchDeviceUnchecked(devs, name, Truthy(value)))
        ELSE IF characteristic.t = "string"
                /\ characteristic.v = <<"B", "r", "i", "g", "h", "t", "n", "e", "s", "s">>
        THEN IF found[1].type # DIMMING THEN Outcome("ignored", <<>>)
             ELSE Settle(dimmingDevice(devs, name, ToNumber(value)))
        ELSE Outcome("ignored", <<>>)

\* handleHomebridgeSetMessage(payload) on registry devs.
handleHomebridgeSetMessage(devs, payload) ==
    LET name           == ToPropertyKey(Get(payload, <<"n", "a", "m", "e">>))
        found          == Lookup(devs, name)
        characteristic == Get(payload, <<"c", "h", "a", "r", "a", "c", "t", "e", "r", "i", "s", "t", "i", "c">>)
        value          == Get(payload, <<"v", "a", "l", "u", "e">>)
    IN  IF payload.t = "null" THEN Outcome("rejected", <<>>)
        ELSE IF found = <<>> THEN Outcome("ignored", <<>>)
        ELSE IF characteristic.t = "string" /\ characteristic.v = <<"O", "n">>
        THEN IF found[1].type # SWITCH /\ found[1].type # DIMMING
             THEN Outcome("ignored", <<>>)
             ELSE IF found[1].type = SWITCH
             THEN Settle(switchDevice(devs, name, Truthy(value)))
             ELSE Settle(dimmingDevice(devs, name, IF Truthy(value) THEN 100 ELSE 0))
        ELSE IF characteristic.t = "string"
                /\ characteristic.v = <<"B", "r", "i", "g", "h", "t", "n", "e", "s", "s">>
        THEN IF found[1].type # DIMMING THEN Outcome("ignored", <<>>)
             ELSE Settle(dimmingDevice(devs, name, ToNumber(value)))
        ELSE Outcome("ignored", <<>>)

\* handlePublish on the command topic: JSON.parse outside any try, then the handler.
handleCommandPublish(devs, text) ==
    LET payload == JsonParse(text)
    IN  IF payload.t = "SyntaxError" THEN Outcome("rejected", <<>>)
        ELSE handleHomebridgeSetMessage(devs, payload)

\* The awaits between the encoder's call and client.publish: md5(gatewayId),
\* md5 of that, and md5(checksumStr) inside MqttService.publish.
AwaitsBeforePublish == 3

\* The call MqttService.publish makes on the cloud client (the random id, the
\* date and the checksum of the envelope left out).
mqttPublish(cmd) ==
    [topic  |-> cmd.topic,
     data   |-> cmd,
     qos    |-> 0,
     retain |-> FALSE]

----------------------------------------------------------------------------
(* Inputs of the decoder and the encoders                                  *)

\* Largest channel index of the devices drawn as decoder / encoder inputs.
MaxIndex == 5

MacA == <<"a", "a", ":", "b", "b", ":", "c", "c", ":", "d", "d", ":", "e", "e", ":", "f", "f">>

MacB == <<"1", "1", ":", "2", "2", ":", "3", "3", ":", "4", "4", ":", "5", "5", ":", "6", "6">>

ModuleM1 == <<"M", "1">>

ModuleM2 == <<"M", "2">>

ModuleM3 == <<"M", "3">>

GatewayG1 == <<"G", "1">>

GatewayG2 == <<"G", "2">>

TitleKitchen == <<"K", "i", "t", "c", "h", "e", "n">>

\* Characters drawn for the positions of a tail the decoders read.
TailChars ==
    {HexDigitsUpper[i] : i \in 1..16} \cup {HexDigitsLower[i] : i \in 1..16}
        \cup {"g", "-", " ", "x"}

IndexValues == 0..MaxIndex \cup {NaN}

CodecDevices ==
    {Device(ModuleM1, TitleKitchen, SWITCH, i, MacA, GatewayG1) : i \in IndexValues}
        \cup {Device(ModuleM2, TitleKitchen, DIMMING, 0, MacB, GatewayG2)}

\* Tails: four leading characters, the two brightness characters, then the type
\* code "400" and the status character; and tails shorter than six characters.
CodecTails ==
    {<<"0", "0", "0", "0", c1, c2, "4", "0", "0", c3>> :
        c1 \in {"0", "7", "F", "f", "g", "-"}, c2 \in TailChars, c3 \in {"0", "1"}}
    \cup {<<"0", "0", "0", "0", "7", "F", "4", "0", "0", c>> : c \in TailChars}
    \cup {<<"0", "0", "0", "0", c1, c2>> :
            c1 \in {HexDigitsUpper[i] : i \in 1..16}, c2 \in {HexDigitsUpper[i] : i \in 1..16}}
    \cup {<<"4", "0", "0", c>> : c \in TailChars}
    \cup {<<>>, <<"1">>, <<"0", "0", "0", "0", "7">>}

Brightnesses == 0..100

NoArg == [kind |-> "none"]

DecodeArgs == [kind : {"decode"}, device : CodecDevices, data : CodecTails]

SwitchArgs == [kind : {"switch"}, device : CodecDevices, on : BOOLEAN]

DimmingArgs == [kind : {"dimming"}, device : CodecDevices, brightness : Brightnesses]

\* The text a hub client sends for a command: name and characteristic as JSON
\* strings, value as the JSON text given.
HubCommandText(name, characteristic, value) ==
    <<"{", "\"", "n", "a", "m", "e", "\"", ":", "\"">> \o name
        \o <<"\"", ",", "\"", "c", "h", "a", "r", "a", "c", "t", "e", "r", "i", "s", "t", "i", "c", "\"", ":", "\"">>
        \o characteristic
        \o <<"\"", ",", "\"", "v", "a", "l", "u", "e", "\"", ":">> \o value \o <<"}">>

CharOn == <<"O", "n">>

CharBrightness == <<"B", "r", "i", "g", "h", "t", "n", "e", "s", "s">>

IdM1_1 == <<"M", "1", "-", "1">>

IdM2_0 == <<"M", "2", "-", "0">>

\* JSON texts drawn for the value of a Brightness command: every integer of
\* 0..100, integers outside that range, and values that are not numbers.
BrightnessTexts ==
    {NumToString(b, 10) : b \in Brightnesses}
        \cup { <<"1", "0", "1">>, <<"1", "5", "0">>, <<"2", "5", "5">>, <<"-", "5">>,
               <<"t", "r", "u", "e">>, <<"n", "u", "l", "l">>,
               <<"\"", "5", "0", "\"">>, <<"\"", "x", "\"">> }

\* JSON texts drawn for the value of an On command.
OnTexts ==
    { <<"t", "r", "u", "e">>, <<"f", "a", "l", "s", "e">>, <<"1">>, <<"0">>,
      <<"n", "u", "l", "l">>, <<"\"", "\"">>, <<"\"", "o", "f", "f", "\"">> }

\* Payloads on the hub command topic, for a registry holding the one device:
\* On and Brightness commands naming it, another characteristic, a command
\* without value, a command naming no registry device, and texts that are not
\* a structured command.
CommandTexts(device) ==
    {HubCommandText(device.id, CharOn, v) : v \in OnTexts}
        \cup {HubCommandText(device.id, CharBrightness, v) : v \in BrightnessTexts}
        \cup { HubCommandText(device.id, <<"H", "u", "e">>, <<"1">>),
               HubCommandText(<<"M", "9", "-", "1">>, CharOn, <<"t", "r", "u", "e">>),
               HubCommandText(<<"M", "9", "-", "1">>, CharBrightness, <<"5", "0">>),
               <<"{", "\"", "n", "a", "m", "e", "\"", ":", "\"">> \o device.id \o <<"\"", "}">>,
               <<"{", "}">>, <<"o", "n">>, <<"n", "u", "l", "l">>, <<"5">>, <<>> }

CommandArgs ==
    UNION {[kind : {"command"}, device : {d}, text : CommandTexts(d)] : d \in CodecDevices}

\* Encoder calls by id on a registry holding the one device: the id of that
\* device, of a device of the other type, or of no device.
CallArgs ==
    [kind : {"call"}, encoder : {"switch", "dimming"}, device : CodecDevices,
     id : {IdM1_1, IdM2_0, <<"M", "9", "-", "1">>}, on : BOOLEAN]

\* handleBleDeviceData's dispatch on device.type, for one device.
decodeDevice(device, data) ==
    IF device.type = SWITCH THEN handleSwitchBLEData(device, data)
    ELSE IF device.type = DIMMING THEN handleDimmingBLEData(device, data)
    ELSE <<>>

\* The two characters of the data byte inside a write command's value:
\* "02" + 12 characters of MAC + 4 characters of opcode precede them.
dataByteOf(value) == Substring(value, 18, 20)

InitCodec ==
    /\ arg \in DecodeArgs \cup SwitchArgs \cup DimmingArgs \cup CommandArgs \cup CallArgs
    /\ ret = <<>>
    /\ phase = "input"
    /\ snapshot = <<>>
    /\ devices = <<>>
    /\ bleDeviceCache = <<>>
    /\ published = <<>>
    /\ lastEvent = [type |-> "none"]
    /\ frames = <<>>
    /\ tasks = <<>>
    /\ cloudPublished = <<>>
    /\ commands = 0

CodecFrame == UNCHANGED <<snapshot, devices, bleDeviceCache, published, lastEvent, frames, arg, tasks, cloudPublished, commands>>

\* The decoder applied to the drawn device and tail.
Decode ==
    /\ phase = "input" /\ arg.kind = "decode"
    /\ ret' = decodeDevice(arg.device, arg.data)
    /\ phase' = "decoded"
    /\ CodecFrame

\* switchDevice applied to the drawn device (alone in the registry) and state.
EncodeSwitch ==
    /\ phase = "input" /\ arg.kind = "switch"
    /\ ret' = <<switchDevice(<<arg.device>>, arg.device.id, arg.on)>>
    /\ phase' = "encoded"
    /\ CodecFrame

\* dimmingDevice applied to the drawn device (alone in the registry) and brightness.
EncodeDimming ==
    /\ phase = "input" /\ arg.kind = "dimming"
    /\ ret' = <<dimmingDevice(<<arg.device>>, arg.device.id, arg.brightness)>>
    /\ phase' = "encoded"
    /\ CodecFrame

\* The data byte of an encoded command handed back to the decoder of the same device.
DecodeEncoded ==
    /\ phase = "encoded" /\ ~IsThrown(ret[1])
    /\ ret' = IF arg.kind = "dimming"
              THEN handleDimmingBLEData(arg.device, <<"0", "0", "0", "0">> \o dataByteOf(ret[1].value))
              ELSE handleSwitchBLEData(arg.device, dataByteOf(ret[1].value))
    /\ phase' = "roundtrip"
    /\ CodecFrame

\* handlePublish on the command topic applied to the drawn text, the drawn
\* device alone in the registry: how it ends and the command it goes on to send.
HandleCommand ==
    /\ phase = "input" /\ arg.kind = "command"
    /\ ret' = <<handleCommandPublish(<<arg.device>>, arg.text)>>
    /\ phase' = "handled"
    /\ CodecFrame

\* An encoder called by id inside the handler's try: what the encoder
\* returns or throws, and how the try/catch around the call ends.
EncodeInTry ==
    /\ phase = "input" /\ arg.kind = "call"
    /\ LET r == IF arg.encoder = "switch"
                THEN switchDevice(<<arg.device>>, arg.id, arg.on)
                ELSE dimmingDevice(<<arg.device>>, arg.id, IF arg.on THEN 100 ELSE 0)
       IN  ret' = <<r, Settle(r)>>
    /\ phase' = "called"
    /\ CodecFrame

NextCodec == Decode \/ EncodeSwitch \/ EncodeDimming \/ DecodeEncoded \/ HandleCommand \/ EncodeInTry

SpecCodec == InitCodec /\ [][NextCodec]_vars

----------------------------------------------------------------------------
(* Registry construction (DeviceService.fromAfterLoginResp)                *)

ONOFF_GANG == <<"O", "N", "O", "F", "F", " ", "G", "A", "N", "G">>

DIMMING_LABEL == <<"D", "I", "M", "M", "I", "N", "G">>

\* First loop: gateway info from profile.profile_device, in order; a record
\* without device or gateway is skipped.
RECURSIVE gatewayInfo(_, _)
gatewayInfo(profileDevices, deviceInfo) ==
    IF profileDevices = <<>> THEN deviceInfo
    ELSE LET pd == Head(profileDevices)
         IN  IF Falsy(pd.device) \/ Falsy(pd.gateway)
             THEN gatewayInfo(Tail(profileDevices), deviceInfo)
             ELSE gatewayInfo(Tail(profileDevices),
                      [m \in DOMAIN deviceInfo \cup {pd.device} |->
                          IF m = pd.device
                          THEN [gateway |-> pd.gateway, macAddress |-> Undef]
                          ELSE deviceInfo[m]])

\* Second loop: MAC addresses from Object.values(data.device); a record without
\* name or mac_address, or of a module without gateway info, is skipped.
RECURSIVE macInfo(_, _)
macInfo(deviceDatas, deviceInfo) ==
    IF deviceDatas = <<>> THEN deviceInfo
    ELSE LET dd == Head(deviceDatas)
         IN  IF Falsy(dd.name) \/ Falsy(dd.mac_address)
             THEN macInfo(Tail(deviceDatas), deviceInfo)
             ELSE IF dd.name \notin DOMAIN deviceInfo \/ Falsy(deviceInfo[dd.name].gateway)
             THEN macInfo(Tail(deviceDatas), deviceInfo)
             ELSE macInfo(Tail(deviceDatas),
                      [deviceInfo EXCEPT ![dd.name].macAddress = ToLowerCase(dd.mac_address)])

\* Mutant of addSwitch: the duplicate test left out, so that a later record
\* with the same id replaces the device of the earlier one.
addSwitchLastWins(devs, deviceInfo, sub) ==
    LET name  == sub.title
        index == Number(SliceFrom(sub.device_button_group, Len(ONOFF_GANG)))
        id    == TemplateStr(sub.device) \o <<"-">> \o NumToString(index, 10)
        d     == Device(sub.device, name, SWITCH, index,
                        deviceInfo[sub.device].macAddress,
                        deviceInfo[sub.device].gateway)
    IN  IF ~Falsy(name) /\ (Includes(name, <<"V", "1">>) \/ Includes(name, <<"V", "2">>))
        THEN devs
        ELSE IF Falsy(sub.device) THEN devs
        ELSE IF \/ sub.device \notin DOMAIN deviceInfo
                \/ Falsy(deviceInfo[sub.device].macAddress)
                \/ Falsy(deviceInfo[sub.device].gateway)
        THEN devs
        ELSE IF Lookup(devs, id) # <<>>
        THEN [i \in 1..Len(devs) |-> IF devs[i].id = id THEN d ELSE devs[i]]
        ELSE Append(devs, d)

\* Mutant of addSwitch: the module's gateway and MAC stored in each other's field.
addSwitchSwappedFields(devs, deviceInfo, sub) ==
    LET name  == sub.title
        index == Number(SliceFrom(sub.device_button_group, Len(ONOFF_GANG)))
        id    == TemplateStr(sub.device) \o <<"-">> \o NumToString(index, 10)
    IN  IF ~Falsy(name) /\ (Includes(name, <<"V", "1">>) \/ Includes(name, <<"V", "2">>))
        THEN devs
        ELSE IF Lookup(devs, id) # <<>> THEN devs
        ELSE IF Falsy(sub.device) THEN devs
        ELSE IF \/ sub.device \notin DOMAIN deviceInfo
                \/ Falsy(deviceInfo[sub.device].macAddress)
                \/ Falsy(deviceInfo[sub.device].gateway)
        THEN devs
        ELSE Append(devs, Device(sub.device, name, SWITCH, index,
                                 deviceInfo[sub.device].gateway,
                                 deviceInfo[sub.device].macAddress))

\* Mutant of addSwitch: the test of the title for V1 / V2 left out.
addSwitchKeepingInternal(devs, deviceInfo, sub) ==
    LET name  == sub.title
        index == Number(SliceFrom(sub.device_button_group, Len(ONOFF_GANG)))
        id    == TemplateStr(sub.device) \o <<"-">> \o NumToString(index, 10)
    IN  IF Lookup(devs, id) # <<>> THEN devs
        ELSE IF Falsy(sub.device) THEN devs
        ELSE IF \/ sub.device \notin DOMAIN deviceInfo
                \/ Falsy(deviceInfo[sub.device].macAddress)
                \/ Falsy(deviceInfo[sub.device].gateway)
        THEN devs
        ELSE Append(devs, Device(sub.device, name, SWITCH, index,
                                 deviceInfo[sub.device].macAddress,
                                 deviceInfo[sub.device].gateway))

\* The ONOFF GANG branch for one profile_subdevice record.
addSwitch(devs, deviceInfo, sub) ==
    LET name  == sub.title
        index == Number(SliceFrom(sub.device_button_group, Len(ONOFF_GANG)))
        id    == TemplateStr(sub.device) \o <<"-">> \o NumToString(index, 10)
    IN  IF ~Falsy(name) /\ (Includes(name, <<"V", "1">>) \/ Includes(name, <<"V", "2">>))
        THEN devs
        ELSE IF Lookup(devs, id) # <<>> THEN devs
        ELSE IF Falsy(sub.device) THEN devs
        ELSE IF \/ sub.device \notin DOMAIN deviceInfo
                \/ Falsy(deviceInfo[sub.device].macAddress)
                \/ Falsy(deviceInfo[sub.device].gateway)
        THEN devs
        ELSE Append(devs, Device(sub.device, name, SWITCH, index,
                                 deviceInfo[sub.device].macAddress,
                                 deviceInfo[sub.device].gateway))

\* The DIMMING branch for one profile_subdevice record: deviceInfo[module] is
\* dereferenced unchecked, so a module without an entry throws a TypeError that
\* the surrounding catch turns into a skip, and an entry without a MAC is used
\* as it is.
addDimming(devs, deviceInfo, sub) ==
    LET id == TemplateStr(sub.device) \o <<"-">> \o NumToString(0, 10)
    IN  IF Lookup(devs, id) # <<>> THEN devs
        ELSE IF Falsy(sub.device) THEN devs
        ELSE IF sub.device \notin DOMAIN deviceInfo THEN devs
        ELSE Append(devs, Device(sub.device, sub.title, DIMMING, 0,
                                 deviceInfo[sub.device].macAddress,
                                 deviceInfo[sub.device].gateway))

\* The body of the third loop for one profile_subdevice record.
addSubdevice(devs, deviceInfo, sub) ==
    IF Falsy(sub.device_button_group) THEN devs
    ELSE IF StartsWith(sub.device_button_group, ONOFF_GANG) THEN addSwitch(devs, deviceInfo, sub)
    ELSE IF StartsWith(sub.device_button_group, DIMMING_LABEL) THEN addDimming(devs, deviceInfo, sub)
    ELSE devs

RECURSIVE addSubdevices(_, _, _)
addSubdevices(devs, deviceInfo, subs) ==
    IF subs = <<>> THEN devs
    ELSE addSubdevices(addSubdevice(devs, deviceInfo, Head(subs)), deviceInfo, Tail(subs))

\* A list element that is null instead of a record.
NullRecord == [isNull |-> TRUE]

IsNull(r) == "isNull" \in DOMAIN r

\* A field value that is a (non-zero) number instead of a string.
NumberValue == <<"12345">>

\* fromAfterLoginResp(data) throws instead of returning.  The first two loops
\* run outside any try: reading a field of a null element throws, and so does
\* mac_address.toLowerCase() on a number (reached when the record has a name
\* with gateway info).  The third loop's catch block reads
\* profileSubdevice.device_button_group again for its message, so a null
\* element throws a second time, out of the catch.
buildThrows(data) ==
    \/ \E k \in 1..Len(data.profile_device) : IsNull(data.profile_device[k])
    \/ \E k \in 1..Len(data.device) : IsNull(data.device[k])
    \/ LET info == gatewayInfo(data.profile_device, <<>>)
       IN  \E k \in 1..Len(data.device) :
              LET dd == data.device[k]
              IN  /\ ~Falsy(dd.name)
                  /\ dd.mac_address = NumberValue
                  /\ dd.name \in DOMAIN info
                  /\ ~Falsy(info[dd.name].gateway)
    \/ \E k \in 1..Len(data.profile_subdevice) : IsNull(data.profile_subdevice[k])

\* deviceInfo after the first two loops.
deviceInfoOf(data) == macInfo(data.device, gatewayInfo(data.profile_device, <<>>))

\* DeviceService.fromAfterLoginResp(data).devices
fromAfterLoginResp(data) ==
    addSubdevices(<<>>, deviceInfoOf(data), data.profile_subdevice)

\* Mutant of getByMacAddress: find instead of filter, the first match alone.
getByMacAddressFirst(devs, macAddress) ==
    LET all == SelectSeq(devs, LAMBDA d : d.macAddress = macAddress)
    IN  IF all = <<>> THEN <<>> ELSE <<Head(all)>>

\* getByMacAddress: Object.values(devices).filter(device.macAddress === macAddress)
getByMacAddress(devs, macAddress) ==
    SelectSeq(devs, LAMBDA d : d.macAddress = macAddress)

----------------------------------------------------------------------------
(* Snapshots                                                               *)

\* Longest profile_subdevice list of the snapshots drawn.
MaxSub == 2

MacAUpper == ToUpperCase(MacA)

TitleHall == <<"H", "a", "l", "l">>

TitleV1 == <<"D", "i", "m", " ", "V", "1">>

TitleV2 == <<"V", "2", " ", "r", "e", "l", "a", "y">>

ProfileDevice(device, gateway) == [device |-> device, gateway |-> gateway]

DeviceData(name, mac) == [name |-> name, mac_address |-> mac]

Subdevice(device, group, title) ==
    [device |-> device, device_button_group |-> group, title |-> title]

\* profile.profile_device and device of the snapshots drawn: complete data,
\* modules with a gateway and no MAC record, records lacking a field, a module
\* (M3) that has a MAC record and no gateway, a null element in either list,
\* and a mac_address that is a number.
ModuleTables ==
    { [profile_device |-> <<ProfileDevice(ModuleM1, GatewayG1), ProfileDevice(ModuleM2, GatewayG2)>>,
       device         |-> <<DeviceData(ModuleM1, MacAUpper), DeviceData(ModuleM2, MacB)>>],
      [profile_device |-> <<ProfileDevice(ModuleM1, GatewayG1), ProfileDevice(ModuleM2, GatewayG1)>>,
       device         |-> <<DeviceData(ModuleM1, MacA)>>],
      [profile_device |-> <<ProfileDevice(ModuleM1, GatewayG1), ProfileDevice(ModuleM2, Undef),
                            ProfileDevice(Undef, GatewayG2)>>,
       device         |-> <<DeviceData(ModuleM1, MacA), DeviceData(ModuleM2, MacB),
                            DeviceData(ModuleM3, MacB)>>],
      [profile_device |-> <<ProfileDevice(ModuleM1, GatewayG1), ProfileDevice(ModuleM2, GatewayG2)>>,
       device         |-> <<DeviceData(ModuleM1, Undef), DeviceData(Undef, MacA),
                            DeviceData(ModuleM2, MacA)>>],
      [profile_device |-> <<ProfileDevice(ModuleM1, GatewayG1), NullRecord>>,
       device         |-> <<DeviceData(ModuleM1, MacA)>>],
      [profile_device |-> <<ProfileDevice(ModuleM1, GatewayG1)>>,
       device         |-> <<DeviceData(ModuleM1, MacA), NullRecord>>],
      [profile_device |-> <<ProfileDevice(ModuleM1, GatewayG1)>>,
       device         |-> <<DeviceData(ModuleM1, MacA), DeviceData(ModuleM1, NumberValue),
                            DeviceData(ModuleM3, NumberValue)>>] }

\* profile.profile_subdevice records of the snapshots drawn.
SubdeviceRecords ==
    { Subdevice(ModuleM1, ONOFF_GANG \o <<"1">>, TitleKitchen),
      Subdevice(ModuleM1, ONOFF_GANG \o <<"1">>, TitleHall),
      Subdevice(ModuleM1, ONOFF_GANG \o <<"2">>, Undef),
      Subdevice(ModuleM1, ONOFF_GANG \o <<"1">>, TitleV1),
      Subdevice(ModuleM1, ONOFF_GANG \o <<"2">>, TitleV2),
      Subdevice(ModuleM1, ONOFF_GANG \o <<"5">>, TitleKitchen),
      Subdevice(ModuleM1, ONOFF_GANG, TitleKitchen),
      Subdevice(ModuleM1, ONOFF_GANG \o <<"x">>, TitleKitchen),
      Subdevice(ModuleM2, ONOFF_GANG \o <<"1">>, TitleKitchen),
      Subdevice(ModuleM2, DIMMING_LABEL, TitleHall),
      Subdevice(ModuleM2, DIMMING_LABEL, TitleV1),
      Subdevice(ModuleM1, DIMMING_LABEL, TitleKitchen),
      Subdevice(ModuleM3, DIMMING_LABEL, TitleKitchen),
      Subdevice(ModuleM3, ONOFF_GANG \o <<"1">>, TitleKitchen),
      Subdevice(Undef, ONOFF_GANG \o <<"1">>, TitleKitchen),
      Subdevice(ModuleM1, Undef, TitleKitchen),
      Subdevice(ModuleM1, <<"C", "U", "R", "T", "A", "I", "N">>, TitleKitchen),
      NullRecord }

SeqsUpTo(S, n) == UNION {[1..k -> S] : k \in 0..n}

Snapshots ==
    { [profile_device    |-> t.profile_device,
       device            |-> t.device,
       profile_subdevice |-> subs] : t \in ModuleTables, subs \in SeqsUpTo(SubdeviceRecords, MaxSub) }

NoEvent == [type |-> "none"]

InitBuild ==
    /\ snapshot \in Snapshots
    /\ devices = <<>>
    /\ phase = "start"
    /\ bleDeviceCache = <<>>
    /\ published = <<>>
    /\ lastEvent = NoEvent
    /\ frames = <<>>
    /\ tasks = <<>>
    /\ cloudPublished = <<>>
    /\ commands = 0
    /\ arg = NoArg
    /\ ret = <<>>

\* main.ts: service.deviceService = DeviceService.fromAfterLoginResp(resp), then
\* the broker is created and started; an exception out of fromAfterLoginResp
\* is uncaught at the top level of main and ends the process.
Start ==
    /\ phase = "start"
    /\ IF buildThrows(snapshot)
       THEN /\ phase' = "failed"
            /\ devices' = devices
       ELSE /\ devices' = fromAfterLoginResp(snapshot)
            /\ phase' = "running"
    /\ UNCHANGED <<snapshot, bleDeviceCache, published, lastEvent, frames, arg, ret, tasks, cloudPublished, commands>>

\* MAC addresses the registry is queried for: registered ones, one of another
\* letter case, one no module has, and the empty string.
QueriedMacs == {MacA, MacB, MacAUpper, <<"9", "9", ":", "8", "8", ":", "7", "7", ":", "6", "6", ":", "5", "5", ":", "4", "4">>, <<>>}

\* getByMacAddress(macAddress) called on the registry Build returned.
LookupByMac(macAddress) ==
    /\ phase = "running"
    /\ arg' = [kind |-> "mac", macAddress |-> macAddress]
    /\ ret' = getByMacAddress(devices, macAddress)
    /\ phase' = "looked"
    /\ UNCHANGED <<snapshot, devices, bleDeviceCache, published, lastEvent, frames,
                   tasks, cloudPublished, commands>>

NextBuild ==
    \/ Start
    \/ \E macAddress \in QueriedMacs : LookupByMac(macAddress)

SpecBuild == InitBuild /\ [][NextBuild]_vars

----------------------------------------------------------------------------
(* The embedded broker's event handlers (AedesService)                     *)

\* Number of BLE ingress publishes a behaviour receives.
MaxFrames == 2

\* Mutant of cacheSet: an existing entry is kept instead of overwritten.
cacheSetKeepFirst(cache, macAddress, data) ==
    IF \E i \in 1..Len(cache) : cache[i].key = macAddress
    THEN cache
    ELSE Append(cache, [key |-> macAddress, value |-> data])

\* Map.prototype.set: an existing key keeps its place and takes the new value,
\* a new key is added last.
cacheSet(cache, macAddress, data) ==
    IF \E i \in 1..Len(cache) : cache[i].key = macAddress
    THEN [i \in 1..Len(cache) |->
            IF cache[i].key = macAddress
            THEN [key |-> macAddress, value |-> data] ELSE cache[i]]
    ELSE Append(cache, [key |-> macAddress, value |-> data])

\* Mutant of decodeDevices: a device that yields no publish ends the loop.
RECURSIVE decodeDevicesUntilSkip(_, _)
decodeDevicesUntilSkip(devs, data) ==
    IF devs = <<>> THEN <<>>
    ELSE IF decodeDevice(Head(devs), data) = <<>> THEN <<>>
    ELSE decodeDevice(Head(devs), data) \o decodeDevicesUntilSkip(Tail(devs), data)

\* The for loop of handleBleDeviceData over the devices found.
RECURSIVE decodeDevices(_, _)
decodeDevices(devs, data) ==
    IF devs = <<>> THEN <<>>
    ELSE decodeDevice(Head(devs), data) \o decodeDevices(Tail(devs), data)

\* handleBleDeviceData(macAddress, data): the publishes it issues.
handleBleDeviceData(devs, macAddress, data) ==
    decodeDevices(getByMacAddress(devs, macAddress), data)

\* The packet addDevice hands to aedes.publish.
addDevice(device, service, brightness) ==
    [topic      |-> ToAddTopic,
     name       |-> device.id,
     service    |-> service,
     Brightness |-> brightness,
     qos        |-> 1,
     retain     |-> FALSE]

\* Mutant of publishDeviceAddition: every device advertises Brightness.
publishDeviceAdditionAllDimmable(device) ==
    IF device.type = SWITCH \/ device.type = DIMMING
    THEN <<addDevice(device, "Lightbulb", "default")>>
    ELSE <<>>

\* publishDeviceAddition: Brightness is "default" for a Dimming device and
\* absent ("") for a Switch.
publishDeviceAddition(device) ==
    IF device.type = SWITCH THEN <<addDevice(device, "Lightbulb", "")>>
    ELSE IF device.type = DIMMING THEN <<addDevice(device, "Lightbulb", "default")>>
    ELSE <<>>

RECURSIVE publishDeviceAdditions(_)
publishDeviceAdditions(devs) ==
    IF devs = <<>> THEN <<>>
    ELSE publishDeviceAddition(Head(devs)) \o publishDeviceAdditions(Tail(devs))

\* Mutant of replayCache: the oldest cache entry is left out of the replay.
RECURSIVE replayCacheButFirst(_, _)
replayCacheButFirst(devs, cache) ==
    IF Len(cache) <= 1 THEN <<>>
    ELSE handleBleDeviceData(devs, cache[Len(cache)].key, cache[Len(cache)].value)
            \o replayCacheButFirst(devs, SubSeq(cache, 1, Len(cache) - 1))

\* Mutant of replayCache: nothing is replayed.
replayNothing(devs, cache) == <<>>

\* The replay loop of handleSubscription over bleDeviceCache.entries().
RECURSIVE replayCache(_, _)
replayCache(devs, cache) ==
    IF cache = <<>> THEN <<>>
    ELSE handleBleDeviceData(devs, Head(cache).key, Head(cache).value)
            \o replayCache(devs, Tail(cache))

\* Mutant of handleSubscription: the replay loop placed before the discovery loop.
handleSubscriptionReplayFirst(devs, cache, topic) ==
    IF topic # ToWildcardTopic THEN <<>>
    ELSE replayCache(devs, cache) \o publishDeviceAdditions(devs)

\* handleSubscription(subscription, client): the publishes it issues.
handleSubscription(devs, cache, topic) ==
    IF topic # ToWildcardTopic THEN <<>>
    ELSE publishDeviceAdditions(devs) \o replayCache(devs, cache)

MacC == <<"9", "9", ":", "8", "8", ":", "7", "7", ":", "6", "6", ":", "5", "5", ":", "4", "4">>

\* Payloads published on the BLE ingress topic: a MAC followed by a tail.
BlePayloads ==
    { MacA \o <<"0", "0", "0", "0", "7", "F", "4", "0", "0", "2">>,
      MacA \o <<"0", "0", "0", "0", "0", "0", "4", "0", "0", "4">>,
      MacA \o <<"4", "0", "0", "2">>,
      MacA,
      MacB \o <<"0", "0", "0", "0", "F", "F", "4", "0", "0", "0">>,
      MacB \o <<"0", "0", "0", "0", "g", "0", "3", "0", "0", "g">>,
      MacAUpper \o <<"4", "0", "0", "2">>,
      MacC \o <<"4", "0", "0", "2">>,
      MacA \o <<"0", "0", "0", "0", "7", "F", "1", "2", "3", "2">> }

\* Publishes handlePublish leaves alone: the broker's own status and discovery
\* publishes (no client), a client-less publish on the BLE ingress topic, and a
\* client's publish on another topic.
IgnoredPublishes ==
    { [topic |-> ToSetTopic, payload |-> <<"{", "}">>, client |-> FALSE],
      [topic |-> BleTopic, payload |-> MacC \o <<"4", "0", "0", "4">>, client |-> FALSE],
      [topic |-> ToAddTopic, payload |-> MacA \o <<"4", "0", "0", "4">>, client |-> TRUE] }

SubscriptionTopics == {ToWildcardTopic, ToSetTopic, "other/#"}

\* Number of hub commands a behaviour receives.
MaxCommands == 1

\* Payloads published on the hub command topic: a valid command for a switch
\* and one for a dimmer, a characteristic the device type does not have, an
\* unknown device, an unknown characteristic, and texts that are not a
\* structured command.
CommandPayloads ==
    { HubCommandText(IdM1_1, CharOn, <<"t", "r", "u", "e">>),
      HubCommandText(IdM2_0, CharBrightness, <<"5", "0">>),
      HubCommandText(IdM1_1, CharBrightness, <<"5", "0">>),
      HubCommandText(<<"M", "9", "-", "1">>, CharOn, <<"t", "r", "u", "e">>),
      HubCommandText(IdM1_1, <<"H", "u", "e">>, <<"1">>),
      <<"o", "n">>,
      <<"n", "u", "l", "l">> }

\* Snapshots the broker is started with: a three-gang module (one channel
\* past the decoder's three bits) and a dimmer; a dimmer, a switch of index
\* 0 and a switch behind one MAC; a dimmer whose module has no MAC record; no devices.
BrokerSnapshots ==
    { [profile_device    |-> <<ProfileDevice(ModuleM1, GatewayG1), ProfileDevice(ModuleM2, GatewayG2)>>,
       device            |-> <<DeviceData(ModuleM1, MacAUpper), DeviceData(ModuleM2, MacB)>>,
       profile_subdevice |-> <<Subdevice(ModuleM1, ONOFF_GANG \o <<"1">>, TitleKitchen),
                               Subdevice(ModuleM1, ONOFF_GANG \o <<"2">>, TitleHall),
                               Subdevice(ModuleM1, ONOFF_GANG \o <<"5">>, Undef),
                               Subdevice(ModuleM2, DIMMING_LABEL, TitleHall)>>],
      [profile_device    |-> <<ProfileDevice(ModuleM1, GatewayG1), ProfileDevice(ModuleM2, GatewayG1)>>,
       device            |-> <<DeviceData(ModuleM1, MacA), DeviceData(ModuleM2, MacA)>>,
       profile_subdevice |-> <<Subdevice(ModuleM2, DIMMING_LABEL, TitleHall),
                               Subdevice(ModuleM1, ONOFF_GANG, TitleHall),
                               Subdevice(ModuleM1, ONOFF_GANG \o <<"3">>, TitleKitchen)>>],
      [profile_device    |-> <<ProfileDevice(ModuleM1, GatewayG1), ProfileDevice(ModuleM2, GatewayG1)>>,
       device            |-> <<DeviceData(ModuleM1, MacB)>>,
       profile_subdevice |-> <<Subdevice(ModuleM1, ONOFF_GANG \o <<"1">>, TitleKitchen),
                               Subdevice(ModuleM2, DIMMING_LABEL, TitleHall)>>],
      [profile_device    |-> <<>>,
       device            |-> <<>>,
       profile_subdevice |-> <<>>] }

Init ==
    /\ snapshot \in BrokerSnapshots
    /\ devices = <<>>
    /\ phase = "start"
    /\ bleDeviceCache = <<>>
    /\ published = <<>>
    /\ lastEvent = NoEvent
    /\ frames = <<>>
    /\ tasks = <<>>
    /\ cloudPublished = <<>>
    /\ commands = 0
    /\ arg = NoArg
    /\ ret = <<>>

Running == phase = "running"

\* Mutant of ClientConnect: a connecting client makes the handler start from
\* an empty registry.
ClientConnectResetting ==
    /\ Running
    /\ published' = <<>>
    /\ devices' = <<>>
    /\ lastEvent' = [type |-> "client", topic |-> "", payload |-> <<>>, client |-> TRUE]
    /\ UNCHANGED <<snapshot, phase, bleDeviceCache, frames, arg, ret, tasks, cloudPublished, commands>>

\* aedes "client" event: handleClientConnection only logs.
ClientConnect ==
    /\ Running
    /\ published' = <<>>
    /\ lastEvent' = [type |-> "client", topic |-> "", payload |-> <<>>, client |-> TRUE]
    /\ UNCHANGED <<snapshot, devices, phase, bleDeviceCache, frames, arg, ret, tasks, cloudPublished, commands>>

\* Mutant of Subscribe: the replay empties the cache it has replayed.
SubscribeDraining(topic, client) ==
    /\ Running
    /\ published' = IF client THEN handleSubscription(devices, bleDeviceCache, topic) ELSE <<>>
    /\ bleDeviceCache' = IF client /\ topic = ToWildcardTopic THEN <<>> ELSE bleDeviceCache
    /\ lastEvent' = [type |-> "subscribe", topic |-> topic, payload |-> <<>>, client |-> client]
    /\ UNCHANGED <<snapshot, devices, phase, frames, arg, ret, tasks, cloudPublished, commands>>

\* aedes "subscribe" event, one handleSubscription call (the listener calls it
\* for each subscription of the packet in turn); without a client it is ignored.
Subscribe(topic, client) ==
    /\ Running
    /\ published' = IF client THEN handleSubscription(devices, bleDeviceCache, topic) ELSE <<>>
    /\ lastEvent' = [type |-> "subscribe", topic |-> topic, payload |-> <<>>, client |-> client]
    /\ UNCHANGED <<snapshot, devices, phase, bleDeviceCache, frames, arg, ret, tasks, cloudPublished, commands>>

\* aedes "publish" event on the BLE ingress topic from a client: handlePublish,
\* extractAndCacheBleDeviceMessage (cache first), handleBleDeviceData.
PublishBle(payload) ==
    /\ Running
    /\ Len(frames) < MaxFrames
    /\ LET macAddress == Slice(payload, 0, 17)
           data       == SliceFrom(payload, 17)
       IN  /\ bleDeviceCache' = cacheSet(bleDeviceCache, macAddress, data)
           /\ published' = handleBleDeviceData(devices, macAddress, data)
    /\ frames' = Append(frames, payload)
    /\ lastEvent' = [type |-> "publish", topic |-> BleTopic, payload |-> payload, client |-> TRUE]
    /\ UNCHANGED <<snapshot, devices, phase, arg, ret, tasks, cloudPublished, commands>>

\* Mutant of PublishIgnored: the publish listener calls handlePublish without
\* testing for a client, so a client-less publish on the BLE ingress topic is
\* cached.
PublishIgnoredUnlessBle(topic, payload, client) ==
    /\ Running
    /\ ~client \/ topic \notin {BleTopic, FromSetTopic}
    /\ published' = <<>>
    /\ bleDeviceCache' = IF topic = BleTopic
                         THEN cacheSet(bleDeviceCache, Slice(payload, 0, 17), SliceFrom(payload, 17))
                         ELSE bleDeviceCache
    /\ lastEvent' = [type |-> "publish", topic |-> topic, payload |-> payload, client |-> client]
    /\ UNCHANGED <<snapshot, devices, phase, frames, arg, ret, tasks, cloudPublished, commands>>

\* aedes "publish" event that handlePublish does not act on: a publish without
\* a client (the broker's own, on any topic), or one on a topic that is neither
\* the command topic nor the BLE ingress topic.
PublishIgnored(topic, payload, client) ==
    /\ Running
    /\ ~client \/ topic \notin {BleTopic, FromSetTopic}
    /\ published' = <<>>
    /\ lastEvent' = [type |-> "publish", topic |-> topic, payload |-> payload, client |-> client]
    /\ UNCHANGED <<snapshot, devices, phase, bleDeviceCache, frames, arg, ret, tasks, cloudPublished, commands>>

\* aedes "publish" event on the hub command topic from a client: handlePublish
\* parses the payload and runs handleHomebridgeSetMessage up to its first
\* pending await.  A valid command leaves the handler suspended with its write
\* command built; an exception outside every try rejects the listener's
\* promise with nothing to handle it, which ends the process.
ReceiveCommand(payload, bound) ==
    /\ Running
    /\ commands < bound
    /\ LET outcome == handleCommandPublish(devices, payload)
       IN  /\ tasks' = IF outcome.kind = "command"
                       THEN Append(tasks, [cmd |-> outcome.cmd[1], awaits |-> AwaitsBeforePublish])
                       ELSE tasks
           /\ phase' = IF outcome.kind = "rejected" THEN "crashed" ELSE phase
           /\ lastEvent' = [type |-> "publish", topic |-> FromSetTopic, payload |-> payload,
                            client |-> TRUE, outcome |-> outcome.kind]
    /\ commands' = commands + 1
    /\ published' = <<>>
    /\ UNCHANGED <<snapshot, devices, bleDeviceCache, frames, arg, ret, cloudPublished>>

\* A hub command of the behaviours that receive at most MaxCommands of them.
PublishCommand(payload) == ReceiveCommand(payload, MaxCommands)

\* The sequence s without its element i.
RemoveAt(s, i) == SubSeq(s, 1, i - 1) \o SubSeq(s, i + 1, Len(s))

\* An awaited md5 of suspended handler i resolves: the handler runs to its next
\* await, or, after the last one, MqttService.publish calls client.publish and
\* the handler returns.
AwaitResolved(i) ==
    /\ Running
    /\ i \in 1..Len(tasks)
    /\ IF tasks[i].awaits > 1
       THEN /\ tasks' = [tasks EXCEPT ![i].awaits = @ - 1]
            /\ UNCHANGED cloudPublished
       ELSE /\ tasks' = RemoveAt(tasks, i)
            /\ cloudPublished' = Append(cloudPublished, mqttPublish(tasks[i].cmd))
    /\ UNCHANGED <<snapshot, devices, phase, bleDeviceCache, published, lastEvent,
                   frames, arg, ret, commands>>

\* Mutant of AwaitRejected: the encoder awaited outside the try, so that its
\* rejection rejects the listener's promise with nothing to handle it.
AwaitRejectedUncaught(i) ==
    /\ Running
    /\ i \in 1..Len(tasks)
    /\ tasks' = RemoveAt(tasks, i)
    /\ phase' = "crashed"
    /\ UNCHANGED <<snapshot, devices, bleDeviceCache, published, lastEvent,
                   frames, arg, ret, cloudPublished, commands>>

\* An awaited step of suspended handler i rejects (a hash computation, or
\* MqttService.publish throwing): the catch around the encoder call logs the
\* error and the handler returns without a cloud publish.
AwaitRejected(i) ==
    /\ Running
    /\ i \in 1..Len(tasks)
    /\ tasks' = RemoveAt(tasks, i)
    /\ UNCHANGED <<snapshot, devices, phase, bleDeviceCache, published, lastEvent,
                   frames, arg, ret, cloudPublished, commands>>

\* Mutant of PublishCompletion: a failed cloud publish is sent once more.
PublishCompletionRetrying(cloud, err) ==
    /\ Running
    /\ IF cloud THEN cloudPublished # <<>> ELSE published # <<>>
    /\ lastEvent' = [type |-> "completion", topic |-> "", payload |-> <<>>,
                     client |-> FALSE, error |-> err]
    /\ cloudPublished' = IF cloud /\ err /\ Len(cloudPublished) <= MaxCommands
                         THEN Append(cloudPublished, cloudPublished[Len(cloudPublished)])
                         ELSE cloudPublished
    /\ UNCHANGED <<snapshot, devices, phase, bleDeviceCache, published, frames,
                   arg, ret, tasks, commands>>

\* The completion callback of an aedes.publish of the last handler, or of a
\* client.publish of MqttService, is invoked with or without an error: it logs.
PublishCompletion(cloud, err) ==
    /\ Running
    /\ IF cloud THEN cloudPublished # <<>> ELSE published # <<>>
    /\ lastEvent' = [type |-> "completion", topic |-> "", payload |-> <<>>,
                     client |-> FALSE, error |-> err]
    /\ UNCHANGED <<snapshot, devices, phase, bleDeviceCache, published, frames,
                   arg, ret, tasks, cloudPublished, commands>>

Next ==
    \/ Start
    \/ ClientConnect
    \/ \E topic \in SubscriptionTopics, client \in BOOLEAN : Subscribe(topic, client)
    \/ \E payload \in BlePayloads : PublishBle(payload)
    \/ \E e \in IgnoredPublishes : PublishIgnored(e.topic, e.payload, e.client)

Spec == Init /\ [][Next]_vars

\* BLE frames of the behaviours that also carry hub commands: one for the
\* switch module and one for the dimmer of the first snapshot.
HubBlePayloads ==
    { MacA \o <<"0", "0", "0", "0", "7", "F", "4", "0", "0", "2">>,
      MacB \o <<"0", "0", "0", "0", "F", "F", "4", "0", "0", "0">> }

\* Every event of the broker: Next with fewer BLE payloads, and the hub
\* commands with their suspended handlers and the publish completions.
NextHub ==
    \/ Start
    \/ ClientConnect
    \/ \E topic \in SubscriptionTopics, client \in BOOLEAN : Subscribe(topic, client)
    \/ \E payload \in HubBlePayloads : PublishBle(payload)
    \/ \E e \in IgnoredPublishes : PublishIgnored(e.topic, e.payload, e.client)
    \/ \E payload \in CommandPayloads : PublishCommand(payload)
    \/ \E i \in 1..MaxCommands : AwaitResolved(i)
    \/ \E cloud \in BOOLEAN, err \in BOOLEAN : PublishCompletion(cloud, err)

SpecHub == Init /\ [][NextHub]_vars

\* Number of hub commands received by the behaviours in which the handlers of
\* several commands are suspended together.
MaxPending == 2

\* The hub commands of those behaviours: a switch turned on and turned off.
PendingCommands ==
    { HubCommandText(IdM1_1, CharOn, <<"t", "r", "u", "e">>),
      HubCommandText(IdM1_1, CharOn, <<"f", "a", "l", "s", "e">>) }

\* The BLE frame of those behaviours.
PendingBlePayloads ==
    { MacA \o <<"0", "0", "0", "0", "7", "F", "4", "0", "0", "2">> }

\* The broker with several hub commands in flight: each received command
\* suspends its handler at its awaits, which resolve in any order, while BLE
\* frames, subscriptions and further commands arrive, awaited steps reject
\* and cloud publishes complete or fail.
NextCmd ==
    \/ Start
    \/ Subscribe(ToWildcardTopic, TRUE)
    \/ \E payload \in PendingBlePayloads : PublishBle(payload)
    \/ \E payload \in PendingCommands : ReceiveCommand(payload, MaxPending)
    \/ \E i \in 1..MaxPending : AwaitResolved(i)
    \/ \E i \in 1..MaxPending : AwaitRejected(i)
    \/ \E err \in BOOLEAN : PublishCompletion(TRUE, err)

SpecCmd == Init /\ [][NextCmd]_vars

----------------------------------------------------------------------------
(* Claims about the broker (under Spec)                                    *)

\* The MAC of a received payload: its first 17 characters.
FrameMac(payload) == SubSeq(payload, 1, Min(17, Len(payload)))

\* The tail of a received payload: its characters from offset 17.
FrameTail(payload) ==
    IF Len(payload) <= 17 THEN <<>> ELSE SubSeq(payload, 18, Len(payload))

HasFrame(mac) == \E k \in 1..Len(frames) : FrameMac(frames[k]) = mac

\* The tail of the most recent payload received for a MAC.
LatestTail(mac) ==
    LET last == CHOOSE k \in 1..Len(frames) :
                    /\ FrameMac(frames[k]) = mac
                    /\ \A h \in (k + 1)..Len(frames) : FrameMac(frames[h]) # mac
    IN  FrameTail(frames[last])

\* The status publishes for one device among the publishes of a handler.
StatusPublishesFor(device) ==
    SelectSeq(published, LAMBDA p : p.topic = ToSetTopic /\ p.name = device.id)

\* C1: handling a client's subscription to {prefix}/to/# publishes, for every
\* registry device whose MAC has a cached frame, the status updates on
\* {prefix}/to/set decoded from the most recent frame received for that MAC
\* (none when that frame decodes to nothing for the device); the subscription
\* is the only event needed, no BLE frame arrives with it.
C1_SubscribeReplaysLatestFrames ==
    (/\ Running
     /\ lastEvent.type = "subscribe"
     /\ lastEvent.client
     /\ lastEvent.topic = ToWildcardTopic)
    => \A i \in 1..Len(devices) :
          HasFrame(devices[i].macAddress)
            => StatusPublishesFor(devices[i])
                 = decodeDevice(devices[i], LatestTail(devices[i].macAddress))

C1_Witness ==
    /\ Running
    /\ lastEvent.type = "subscribe"
    /\ lastEvent.client
    /\ lastEvent.topic = ToWildcardTopic
    /\ frames = << MacA \o <<"4", "0", "0", "2">>,
                   MacA \o <<"0", "0", "0", "0", "0", "0", "4", "0", "0", "4">> >>
    /\ Len(devices) = 4
    /\ StatusPublishesFor(devices[1]) # <<>>
    /\ StatusPublishesFor(devices[1])[1].value = <<"f", "a", "l", "s", "e">>
    /\ StatusPublishesFor(devices[2])[1].value = <<"t", "r", "u", "e">>

\* C2: for every MAC that has appeared as the first 17 characters of a payload
\* on the BLE ingress topic, the replay cache holds exactly one entry, mapping
\* the MAC to the tail of the most recent such payload, whether or not a device
\* has that MAC and whether or not the tail decodes; the cache holds no other
\* entry, so none is ever removed.
C2_CacheHoldsLatestTailPerMac ==
    Running =>
        /\ \A k \in 1..Len(frames) :
             \E i \in 1..Len(bleDeviceCache) :
                /\ bleDeviceCache[i].key = FrameMac(frames[k])
                /\ bleDeviceCache[i].value = LatestTail(FrameMac(frames[k]))
        /\ \A i \in 1..Len(bleDeviceCache) : HasFrame(bleDeviceCache[i].key)
        /\ \A i, j \in 1..Len(bleDeviceCache) :
             bleDeviceCache[i].key = bleDeviceCache[j].key => i = j

C2_Witness ==
    /\ Running
    /\ frames = << MacA \o <<"4", "0", "0", "2">>, MacA >>
    /\ getByMacAddress(devices, MacA) = <<>>
    /\ lastEvent.type = "publish" /\ lastEvent.topic = BleTopic
    /\ published = <<>>
    /\ bleDeviceCache = << [key |-> MacA, value |-> <<>>] >>

\* The event is a client's publish on the BLE ingress topic.
IsBleReceipt(e) == e.type = "publish" /\ e.topic = BleTopic /\ e.client

\* The event is a client's subscription to {prefix}/to/#.
IsReplay(e) == e.type = "subscribe" /\ e.client /\ e.topic = ToWildcardTopic

\* Among publishes pubs, the status publishes for the devices of one MAC.
StatusPublishesForMac(pubs, mac) ==
    SelectSeq(pubs, LAMBDA p :
        /\ p.topic = ToSetTopic
        /\ \E i \in 1..Len(devices) : devices[i].macAddress = mac /\ devices[i].id = p.name)

\* C15: replay idempotence.  A subscription leaves the cache unchanged; the
\* replay that follows the receipt of a frame publishes, for the devices of
\* the frame's MAC, the same sequence of status publishes as the receipt did;
\* and a replay that follows a replay publishes the same sequence again.
C15_ReplayIdempotent ==
    [][ /\ lastEvent'.type = "subscribe" => bleDeviceCache' = bleDeviceCache
        /\ (IsBleReceipt(lastEvent) /\ IsReplay(lastEvent')) =>
              StatusPublishesForMac(published', FrameMac(lastEvent.payload)) = published
        /\ (IsReplay(lastEvent) /\ IsReplay(lastEvent')) => published' = published
      ]_vars

C15_Witness ==
    /\ IsReplay(lastEvent)
    /\ frames = << MacB \o <<"0", "0", "0", "0", "F", "F", "4", "0", "0", "0">> >>
    /\ bleDeviceCache = << [key |-> MacB, value |-> <<"0", "0", "0", "0", "F", "F", "4", "0", "0", "0">>] >>
    /\ Len(StatusPublishesForMac(published, MacB)) = 2
    /\ StatusPublishesForMac(published, MacB)[1].characteristic = "Brightness"
    /\ StatusPublishesForMac(published, MacB)[1].value = <<"1", "0", "0">>
    /\ StatusPublishesForMac(published, MacB)[2].characteristic = "On"
    /\ StatusPublishesForMac(published, MacB)[2].value = <<"t", "r", "u", "e">>

\* The discovery publishes among the publishes of the last handler.
DiscoveryPublishes == SelectSeq(published, LAMBDA p : p.topic = ToAddTopic)

\* C18: a client's subscription to exactly {prefix}/to/# triggers exactly one
\* discovery publish on {prefix}/to/add for every registry device, with name =
\* device id and service "Lightbulb" for both types, carrying Brightness =
\* "default" iff the device is Dimming; a subscription to any other topic
\* triggers no publish at all, neither discovery nor replay.
C18_DiscoveryOnWildcardSubscription ==
    (lastEvent.type = "subscribe" /\ lastEvent.client) =>
        IF lastEvent.topic = ToWildcardTopic
        THEN /\ Len(DiscoveryPublishes) = Len(devices)
             /\ \A i \in 1..Len(devices) :
                   \E k \in 1..Len(DiscoveryPublishes) :
                      /\ DiscoveryPublishes[k].name = devices[i].id
                      /\ DiscoveryPublishes[k].service = "Lightbulb"
                      /\ (DiscoveryPublishes[k].Brightness = "default")
                            <=> (devices[i].type = DIMMING)
                      /\ (DiscoveryPublishes[k].Brightness = "")
                            <=> (devices[i].type = SWITCH)
        ELSE published = <<>>

C18_Witness ==
    /\ lastEvent.type = "subscribe" /\ lastEvent.client
    /\ lastEvent.topic = ToWildcardTopic
    /\ Len(devices) = 4
    /\ Len(DiscoveryPublishes) = 4
    /\ DiscoveryPublishes[1].name = <<"M", "1", "-", "1">>
    /\ DiscoveryPublishes[1].Brightness = ""
    /\ DiscoveryPublishes[4].name = <<"M", "2", "-", "0">>
    /\ DiscoveryPublishes[4].Brightness = "default"
    /\ bleDeviceCache # <<>>

\* The status publishes among the publishes of the last handler.
StatusPublishes == SelectSeq(published, LAMBDA p : p.topic = ToSetTopic)

\* C21: within the handling of one subscription to {prefix}/to/#, every
\* discovery publish (one per registry device) is issued before the first
\* replayed status publish.
C21_DiscoveryBeforeReplay ==
    (lastEvent.type = "subscribe" /\ lastEvent.client /\ lastEvent.topic = ToWildcardTopic) =>
        /\ Len(published) >= Len(devices)
        /\ \A i \in 1..Len(devices) :
              /\ published[i].topic = ToAddTopic
              /\ published[i].name = devices[i].id
        /\ \A j \in (Len(devices) + 1)..Len(published) : published[j].topic = ToSetTopic
        /\ \A i, j \in 1..Len(published) :
              (published[i].topic = ToAddTopic /\ published[j].topic = ToSetTopic) => i < j

C21_Witness ==
    /\ lastEvent.type = "subscribe" /\ lastEvent.client
    /\ lastEvent.topic = ToWildcardTopic
    /\ Len(devices) = 4
    /\ Len(bleDeviceCache) = 2
    /\ Len(StatusPublishes) >= 3
    /\ published[4].topic = ToAddTopic
    /\ published[5].topic = ToSetTopic

\* The 3-character type code of a tail: the characters before the last one.
TypeCode(tail) == Slice(tail, -4, -1)

\* The last event is a client's publish on the BLE ingress topic.
BleReceived ==
    /\ lastEvent.type = "publish"
    /\ lastEvent.topic = BleTopic
    /\ lastEvent.client

\* C24 (as claimed): a BLE frame whose type code is not "400" produces no
\* status publish for any device, on first receipt and on replay, though it is
\* still cached.
C24_UnsupportedTypeCodeIgnored ==
    /\ (BleReceived /\ TypeCode(FrameTail(lastEvent.payload)) # <<"4", "0", "0">>)
        => /\ published = <<>>
           /\ \E k \in 1..Len(bleDeviceCache) :
                 /\ bleDeviceCache[k].key = FrameMac(lastEvent.payload)
                 /\ bleDeviceCache[k].value = FrameTail(lastEvent.payload)
    /\ (lastEvent.type = "subscribe" /\ lastEvent.client /\ lastEvent.topic = ToWildcardTopic)
        => \A j \in 1..Len(StatusPublishes) :
              \E k \in 1..Len(bleDeviceCache), i \in 1..Len(devices) :
                 /\ TypeCode(bleDeviceCache[k].value) = <<"4", "0", "0">>
                 /\ devices[i].macAddress = bleDeviceCache[k].key
                 /\ devices[i].id = StatusPublishes[j].name

\* The On publishes of the last handler for the device with the id.
OnPublishesFor(id) ==
    SelectSeq(published, LAMBDA p : p.topic = ToSetTopic /\ p.name = id /\ p.characteristic = "On")

\* C25: for one BLE frame, each Switch device on the frame's MAC with index
\* 1..3 gets exactly one On publish, and each Switch device on that MAC whose
\* index has no status bit (0, or more than 3) gets none, whatever the other
\* devices on the MAC get.
C25_OnePublishPerSwitchChannel ==
    BleReceived =>
        \A i \in 1..Len(devices) :
            (devices[i].type = SWITCH /\ devices[i].macAddress = FrameMac(lastEvent.payload))
            => Len(OnPublishesFor(devices[i].id))
                  = IF devices[i].index \in 1..3 THEN 1 ELSE 0

C25_Witness ==
    /\ BleReceived
    /\ Len(devices) = 3
    /\ \A i \in 1..3 : devices[i].macAddress = FrameMac(lastEvent.payload)
    /\ devices[2].type = SWITCH /\ devices[2].index = 0
    /\ devices[3].type = SWITCH /\ devices[3].index = 3
    /\ OnPublishesFor(devices[2].id) = <<>>
    /\ Len(OnPublishesFor(devices[3].id)) = 1
    /\ Len(published) = 3

\* The registry devices whose MAC is the frame's MAC up to letter case.
DevicesOfFrame(payload) ==
    SelectSeq(devices, LAMBDA d : d.macAddress = ToLowerCase(FrameMac(payload)))

\* C35 (as claimed): a BLE frame whose MAC equals a registered device's MAC up
\* to letter case is resolved to that device and produces its status updates:
\* a frame MAC in uppercase or mixed case gives the publishes of its lowercase
\* form.
C35_FrameMacAnyCase ==
    BleReceived =>
        published = decodeDevices(DevicesOfFrame(lastEvent.payload), FrameTail(lastEvent.payload))

----------------------------------------------------------------------------
(* Claims about the registry (under SpecBuild)                             *)

Built == phase = "running"

\* C8 (as claimed): every device stored in the registry by Build, Switch or
\* Dimming, has a non-empty macAddress and a non-empty gatewayId.
C8_DevicesHaveMacAndGateway ==
    Built => \A i \in 1..Len(devices) :
                /\ ~Falsy(devices[i].macAddress)
                /\ ~Falsy(devices[i].gatewayId)

\* The id a profile_subdevice record derives, <<>> when its label is of neither kind.
DerivedId(sub) ==
    IF Falsy(sub.device_button_group) THEN <<>>
    ELSE IF StartsWith(sub.device_button_group, ONOFF_GANG)
    THEN TemplateStr(sub.device) \o <<"-">>
            \o NumToString(Number(SliceFrom(sub.device_button_group, 10)), 10)
    ELSE IF StartsWith(sub.device_button_group, DIMMING_LABEL)
    THEN TemplateStr(sub.device) \o <<"-", "0">>
    ELSE <<>>

\* The device a record yields when it is the only record of the snapshot.
DeviceOfRecord(sub) ==
    addSubdevice(<<>>, deviceInfoOf(snapshot), sub)

\* C9: every device of the registry has the id "{guid}-{index}", no two devices
\* share an id (the id is the key the registry is looked up by), and of the
\* records that yield a device with one id the registry holds the device of the
\* first, the later ones being dropped.
C9_UniqueIdsFirstWins ==
    Built =>
        /\ \A i \in 1..Len(devices) :
             devices[i].id = devices[i].guid \o <<"-">> \o NumToString(devices[i].index, 10)
        /\ \A i, j \in 1..Len(devices) : devices[i].id = devices[j].id => i = j
        /\ \A i \in 1..Len(devices) :
             Lookup(devices, devices[i].id) = <<devices[i]>>
        /\ \A k \in 1..Len(snapshot.profile_subdevice) :
             LET sub == snapshot.profile_subdevice[k]
             IN  (/\ DeviceOfRecord(sub) # <<>>
                  /\ \A h \in 1..(k - 1) :
                        LET earlier == snapshot.profile_subdevice[h]
                        IN  DeviceOfRecord(earlier) = <<>>
                                \/ DerivedId(earlier) # DerivedId(sub))
                 => Lookup(devices, DerivedId(sub)) = DeviceOfRecord(sub)

C9_Witness ==
    /\ Built
    /\ Len(snapshot.profile_subdevice) = 2
    /\ snapshot.profile_subdevice[1].title = TitleKitchen
    /\ snapshot.profile_subdevice[2].title = TitleHall
    /\ DerivedId(snapshot.profile_subdevice[1]) = DerivedId(snapshot.profile_subdevice[2])
    /\ Len(devices) = 1
    /\ devices[1].name = TitleKitchen

IsDigits(s) == s # <<>> /\ \A i \in 1..Len(s) : IsDecDigit(s[i])

\* C10: a record labelled "ONOFF GANG<k>", k a positive integer, whose title
\* contains neither V1 nor V2 and whose module has a gateway and a MAC record,
\* yields a registry device with id "{module}-{k}", type Switch, index k, the
\* module's (lowercased) MAC and the module's gateway; module M1 with label
\* ONOFF GANG1 yields id "M1-1", type Switch, index 1.
C10_SwitchRecordYieldsDevice ==
    Built =>
        \A k \in 1..Len(snapshot.profile_subdevice) :
            LET sub    == snapshot.profile_subdevice[k]
                label  == sub.device_button_group
                suffix == SliceFrom(label, 10)
                info   == deviceInfoOf(snapshot)
            IN  (/\ ~Falsy(label) /\ StartsWith(label, ONOFF_GANG)
                 /\ IsDigits(suffix) /\ Number(suffix) >= 1
                 /\ (Falsy(sub.title) \/ (~Includes(sub.title, <<"V", "1">>)
                                            /\ ~Includes(sub.title, <<"V", "2">>)))
                 /\ ~Falsy(sub.device)
                 /\ \E g \in 1..Len(snapshot.profile_device) :
                        /\ snapshot.profile_device[g].device = sub.device
                        /\ ~Falsy(snapshot.profile_device[g].gateway)
                 /\ sub.device \in DOMAIN info
                 /\ ~Falsy(info[sub.device].macAddress))
                => \E i \in 1..Len(devices) :
                      /\ devices[i].id = sub.device \o <<"-">> \o suffix
                      /\ devices[i].type = SWITCH
                      /\ devices[i].index = Number(suffix)
                      /\ devices[i].guid = sub.device
                      /\ devices[i].gatewayId = info[sub.device].gateway
                      /\ devices[i].macAddress = info[sub.device].macAddress
                      /\ \E m \in 1..Len(snapshot.device) :
                            /\ snapshot.device[m].name = sub.device
                            /\ ~Falsy(snapshot.device[m].mac_address)
                            /\ devices[i].macAddress = ToLowerCase(snapshot.device[m].mac_address)
                      /\ (sub.device = ModuleM1 /\ suffix = <<"1">>)
                            => /\ devices[i].id = <<"M", "1", "-", "1">>
                               /\ devices[i].index = 1

C10_Witness ==
    /\ Built
    /\ Len(snapshot.profile_subdevice) >= 1
    /\ snapshot.profile_subdevice[1] = Subdevice(ModuleM1, ONOFF_GANG \o <<"1">>, TitleKitchen)
    /\ Len(devices) >= 1
    /\ devices[1].id = <<"M", "1", "-", "1">>
    /\ devices[1].type = SWITCH
    /\ devices[1].index = 1
    /\ devices[1].macAddress = MacA
    /\ devices[1].gatewayId = GatewayG1

\* The positions of the registry devices whose macAddress is mac.
PositionsWithMac(mac) == {j \in 1..Len(devices) : devices[j].macAddress = mac}

\* C11: registry lookup by MAC returns exactly the registry devices whose
\* macAddress equals the queried MAC, each once: every returned device has that
\* MAC, every registry device with that MAC is returned (all N devices of an
\* N-gang module), and an unknown MAC yields the empty list.
C11_LookupByMacExact ==
    phase = "looked" =>
        /\ \A i \in 1..Len(ret) :
              /\ ret[i].macAddress = arg.macAddress
              /\ \E j \in 1..Len(devices) : devices[j] = ret[i]
        /\ \A j \in PositionsWithMac(arg.macAddress) :
              \E i \in 1..Len(ret) : ret[i] = devices[j]
        /\ Len(ret) = Cardinality(PositionsWithMac(arg.macAddress))
        /\ PositionsWithMac(arg.macAddress) = {} => ret = <<>>

C11_Witness ==
    /\ phase = "looked"
    /\ arg.macAddress = MacA
    /\ Len(devices) = 2
    /\ Len(ret) = 2
    /\ ret[1].id = <<"M", "1", "-", "1">>
    /\ ret[2].id = <<"M", "1", "-", "2">>

\* A record that lacks a field its loop requires, or is no record at all.
BadProfileDevice(pd) == IsNull(pd) \/ Falsy(pd.device) \/ Falsy(pd.gateway)

BadDeviceData(dd) ==
    IsNull(dd) \/ Falsy(dd.name) \/ Falsy(dd.mac_address) \/ dd.mac_address = NumberValue

BadSubdevice(sub) == IsNull(sub) \/ Falsy(sub.device_button_group) \/ Falsy(sub.device)

\* The snapshot without its bad records.
WithoutBadRecords(data) ==
    [profile_device    |-> SelectSeq(data.profile_device, LAMBDA r : ~BadProfileDevice(r)),
     device            |-> SelectSeq(data.device, LAMBDA r : ~BadDeviceData(r)),
     profile_subdevice |-> SelectSeq(data.profile_subdevice, LAMBDA r : ~BadSubdevice(r))]

\* C16 (as claimed): Build returns a registry for every snapshot that has the
\* three lists; a malformed record of any list is skipped without raising out
\* of Build, and the registry is the one built from the snapshot without it.
C16_BuildSkipsBadRecords ==
    phase # "start" =>
        /\ phase # "failed"
        /\ devices = fromAfterLoginResp(WithoutBadRecords(snapshot))

HasV1OrV2(title) ==
    ~Falsy(title) /\ (Includes(title, <<"V", "1">>) \/ Includes(title, <<"V", "2">>))

\* An ONOFF GANG record whose title contains V1 or V2.
IsInternalSwitch(sub) ==
    /\ ~IsNull(sub)
    /\ ~Falsy(sub.device_button_group)
    /\ StartsWith(sub.device_button_group, ONOFF_GANG)
    /\ HasV1OrV2(sub.title)

\* The snapshot without its ONOFF GANG records titled V1 / V2.
WithoutInternalSwitches(data) ==
    [data EXCEPT !.profile_subdevice = SelectSeq(@, LAMBDA sub : ~IsInternalSwitch(sub))]

\* C26: no Switch device of the registry has a title containing "V1" or "V2";
\* an ONOFF GANG record with such a title is skipped without reserving its id
\* or affecting another record: the registry is the one built from the
\* snapshot without those records.
C26_InternalSwitchesSkipped ==
    Built =>
        /\ \A i \in 1..Len(devices) :
              devices[i].type = SWITCH => ~HasV1OrV2(devices[i].name)
        /\ devices = fromAfterLoginResp(WithoutInternalSwitches(snapshot))

C26_Witness ==
    /\ Built
    /\ snapshot.profile_subdevice
          = <<Subdevice(ModuleM1, ONOFF_GANG \o <<"1">>, TitleV1),
              Subdevice(ModuleM1, ONOFF_GANG \o <<"1">>, TitleKitchen)>>
    /\ Len(devices) = 1
    /\ devices[1].id = <<"M", "1", "-", "1">>
    /\ devices[1].name = TitleKitchen

\* C27 (as claimed): in every registry built, each Switch device has an integer
\* index >= 1, each Dimming device has index 0 and id "{guid}-0", and a module
\* contributes at most one Dimming device.
C27_IndexRanges ==
    Built =>
        /\ \A i \in 1..Len(devices) :
              /\ devices[i].type = SWITCH
                    => (devices[i].index # NaN /\ devices[i].index >= 1)
              /\ devices[i].type = DIMMING
                    => /\ devices[i].index = 0
                       /\ devices[i].id = devices[i].guid \o <<"-", "0">>
        /\ \A i, j \in 1..Len(devices) :
              (/\ devices[i].type = DIMMING /\ devices[j].type = DIMMING
               /\ devices[i].guid = devices[j].guid) => i = j

\* The part of C27 about Dimming devices alone.
DimmingIndexZero ==
    Built =>
        /\ \A i \in 1..Len(devices) :
              devices[i].type = DIMMING
                    => /\ devices[i].index = 0
                       /\ devices[i].id = devices[i].guid \o <<"-", "0">>
        /\ \A i, j \in 1..Len(devices) :
              (/\ devices[i].type = DIMMING /\ devices[j].type = DIMMING
               /\ devices[i].guid = devices[j].guid) => i = j

----------------------------------------------------------------------------
(* Claims about the decoder and the encoders (under SpecCodec)             *)

Abs(x) == IF x < 0 THEN 0 - x ELSE x

\* Bit k (0 = least significant) of the non-negative integer v.
BitSet(v, k) == (v \div (2 ^ k)) % 2 = 1

LastChar(s) == s[Len(s)]

IsOnPublish(p, device, b) ==
    /\ p.topic = ToSetTopic
    /\ p.name = device.id
    /\ p.characteristic = "On"
    /\ p.value = JsonBool(b)

IsBrightnessPublish(p, device, n) ==
    /\ p.topic = ToSetTopic
    /\ p.name = device.id
    /\ p.characteristic = "Brightness"
    /\ p.value = JsonNum(n)

\* C3 (as claimed): for a Switch device with index i in 1..3 and a tail whose
\* final character is the hex nibble n, the decoder publishes On = true iff bit
\* (i-1) of n is set (the most significant bit dropped, channel 1 = lowest
\* bit); a tail ending in 4001 with index 1 gives On = true.
C3_SwitchDecodesLowBits ==
    (/\ phase = "decoded"
     /\ arg.device.type = SWITCH
     /\ arg.device.index \in 1..3
     /\ arg.data # <<>>
     /\ IsHexDigit(LastChar(arg.data)))
    => /\ Len(ret) = 1
       /\ IsOnPublish(ret[1], arg.device,
                      BitSet(HexVal(LastChar(arg.data)), arg.device.index - 1))

\* C4 (as claimed): encoding "on" for a Switch device with index 1..3 and
\* decoding the status nibble of the resulting data byte for that device yields
\* true, and encoding "off" then decoding yields false.
C4_SwitchRoundTrip ==
    (/\ phase = "roundtrip"
     /\ arg.kind = "switch"
     /\ arg.device.type = SWITCH
     /\ arg.device.index \in 1..3)
    => /\ Len(ret) = 1
       /\ IsOnPublish(ret[1], arg.device, arg.on)

\* The byte x written at offsets 4 and 5 of a tail, when both are hex digits.
BrightnessByte(data) == 16 * HexVal(data[5]) + HexVal(data[6])

\* C5: for a Dimming device and a tail of at least 6 characters whose characters
\* at offsets 4 and 5 are the hex byte x, the decoder publishes Brightness = b,
\* the integer in 0..100 nearest to x/255*100, and then On = (b > 0); x = 7F
\* gives Brightness 50 and On = true.
C5_DimmingDecode ==
    (/\ phase = "decoded"
     /\ arg.device.type = DIMMING
     /\ Len(arg.data) >= 6
     /\ IsHexDigit(arg.data[5])
     /\ IsHexDigit(arg.data[6]))
    => /\ Len(ret) = 2
       /\ \E b \in 0..100 :
            /\ 2 * Abs(100 * BrightnessByte(arg.data) - 255 * b) <= 255
            /\ IsBrightnessPublish(ret[1], arg.device, b)
            /\ IsOnPublish(ret[2], arg.device, b > 0)
       /\ (arg.data[5] = "7" /\ arg.data[6] = "F")
            => /\ ret[1].value = <<"5", "0">>
               /\ ret[2].value = <<"t", "r", "u", "e">>

C5_Witness ==
    /\ phase = "decoded"
    /\ arg.device.type = DIMMING
    /\ Len(arg.data) >= 6
    /\ arg.data[5] = "7" /\ arg.data[6] = "F"
    /\ Len(ret) = 2
    /\ ret[1].characteristic = "Brightness" /\ ret[1].value = <<"5", "0">>
    /\ ret[2].characteristic = "On" /\ ret[2].value = <<"t", "r", "u", "e">>

\* C6: for every integer brightness b in 0..100, the byte written by the
\* dimming encoder, decoded by the dimming decoder, yields a Brightness d with
\* |d - b| <= 1.
C6_DimmingRoundTrip ==
    (/\ phase = "roundtrip"
     /\ arg.kind = "dimming"
     /\ arg.brightness \in 0..100)
    => /\ Len(ret) = 2
       /\ \E d \in 0..101 :
            /\ Abs(d - arg.brightness) <= 1
            /\ IsBrightnessPublish(ret[1], arg.device, d)

C6_Witness ==
    /\ phase = "roundtrip"
    /\ arg.kind = "dimming"
    /\ arg.brightness = 50
    /\ Len(ret) = 2
    /\ ret[1].characteristic = "Brightness" /\ ret[1].value = <<"5", "0">>

\* Octet k (1..6) of a colon-separated MAC address.
Octet(mac, k) == <<mac[3 * k - 2], mac[3 * k - 1]>>

IsUpperHexDigit(c) == \E i \in 1..16 : HexDigitsUpper[i] = c

\* The value of a switch write for device d and state s is "02", the MAC octets
\* in reverse order, "8000", two uppercase hex digits and "00", and the byte
\* those digits spell has, at the positions 0..7 counted from the most
\* significant bit, exactly position 4-i set, and position 8-i set iff s is on.
SwitchValueAsClaimed(value, d, s) ==
    /\ Len(value) = 22
    /\ SubSeq(value, 1, 2) = <<"0", "2">>
    /\ \A j \in 1..6 : SubSeq(value, 2 * j + 1, 2 * j + 2) = Octet(d.macAddress, 7 - j)
    /\ SubSeq(value, 15, 18) = <<"8", "0", "0", "0">>
    /\ IsUpperHexDigit(value[19]) /\ IsUpperHexDigit(value[20])
    /\ SubSeq(value, 21, 22) = <<"0", "0">>
    /\ LET v == 16 * HexVal(value[19]) + HexVal(value[20])
       IN  /\ (4 - d.index) \in 0..7
           /\ s => (8 - d.index) \in 0..7
           /\ \A p \in 0..7 :
                BitSet(v, 7 - p) <=> (p = 4 - d.index \/ (s /\ p = 8 - d.index))

\* C7 (as claimed): for a Switch device with any index i, the switch write has
\* the value described above.
C7_SwitchEncodingAnyIndex ==
    (/\ phase = "encoded"
     /\ arg.kind = "switch"
     /\ arg.device.type = SWITCH
     /\ arg.device.index # NaN)
    => /\ ~IsThrown(ret[1])
       /\ SwitchValueAsClaimed(ret[1].value, arg.device, arg.on)

\* C7 (amended): for a Switch device with index i in 1..4, the switch write has
\* the value described above; for index 1 and s = on, position 7 is set.
C7_SwitchEncoding ==
    (/\ phase = "encoded"
     /\ arg.kind = "switch"
     /\ arg.device.type = SWITCH
     /\ arg.device.index \in 1..4)
    => /\ ~IsThrown(ret[1])
       /\ SwitchValueAsClaimed(ret[1].value, arg.device, arg.on)
       /\ (arg.device.index = 1 /\ arg.on) => ret[1].value[20] \in {"1", "3", "5", "7", "9", "B", "D", "F"}

C7_Witness ==
    /\ phase = "encoded"
    /\ arg.kind = "switch"
    /\ arg.device.type = SWITCH
    /\ arg.device.index = 3
    /\ arg.on
    /\ ~IsThrown(ret[1])
    /\ SubSeq(ret[1].value, 19, 20) = <<"4", "4">>

\* C22 (as claimed): for a Dimming device, a tail shorter than 6 characters,
\* or one whose characters at offsets 4 and 5 are not two hex digits, is
\* rejected: the decoder issues neither a Brightness nor an On publish.
C22_DimmingRejectsMalformed ==
    (/\ phase = "decoded"
     /\ arg.device.type = DIMMING
     /\ \/ Len(arg.data) < 6
        \/ ~IsHexDigit(arg.data[5])
        \/ ~IsHexDigit(arg.data[6]))
    => ret = <<>>

\* C23 (as claimed): for a Switch device, a tail that is empty or whose final
\* character is not a hex digit is skipped: the decoder issues no On publish,
\* neither true nor false.
C23_SwitchRejectsMalformed ==
    (/\ phase = "decoded"
     /\ arg.device.type = SWITCH
     /\ \/ arg.data = <<>>
        \/ ~IsHexDigit(LastChar(arg.data)))
    => ret = <<>>

----------------------------------------------------------------------------
(* Claims about the encoders as the command handler calls them (under      *)
(* SpecCodec)                                                              *)

\* The type an encoder requires of its device.
RequiredType(encoder) == IF encoder = "switch" THEN SWITCH ELSE DIMMING

\* C19: an encoder called with an id that is not in the registry, or with the
\* id of a device whose type is not the one the encoder is for, throws and
\* hands no command to the cloud publish; the try around the call in the
\* command handler catches the error, so that the handler ends normally.
C19_EncoderThrowsAndHandlerCatches ==
    (/\ phase = "called"
     /\ \/ arg.id # arg.device.id
        \/ arg.device.type # RequiredType(arg.encoder))
    => /\ IsThrown(ret[1])
       /\ ret[2].kind = "caught"
       /\ ret[2].cmd = <<>>

C19_Witness ==
    /\ phase = "called"
    /\ arg.encoder = "switch"
    /\ arg.id = IdM2_0
    /\ arg.device.id = IdM2_0
    /\ arg.device.type = DIMMING
    /\ IsThrown(ret[1])
    /\ ret[2].kind = "caught"

\* A dimming write for device d: "02", the MAC octets in reverse order, "8900"
\* and exactly two uppercase hex digits, which spell a byte of 0..255.
DimmingValueAsClaimed(value, d) ==
    /\ Len(value) = 20
    /\ SubSeq(value, 1, 2) = <<"0", "2">>
    /\ \A j \in 1..6 : SubSeq(value, 2 * j + 1, 2 * j + 2) = Octet(d.macAddress, 7 - j)
    /\ SubSeq(value, 15, 18) = <<"8", "9", "0", "0">>
    /\ IsUpperHexDigit(value[19]) /\ IsUpperHexDigit(value[20])
    /\ (16 * HexVal(value[19]) + HexVal(value[20])) \in 0..255

\* The byte of a dimming write of the layout above.
DimmingByte(value) == 16 * HexVal(value[19]) + HexVal(value[20])

\* v is b / 100 * 255 rounded to the nearest integer.
IsNearest255(v, b) == 2 * Abs(255 * b - 100 * v) <= 100

\* The handler went on to send a dimming command for the drawn device.
DimmingCommandSent ==
    /\ phase = "handled"
    /\ arg.kind = "command"
    /\ arg.device.type = DIMMING
    /\ ret[1].kind = "command"

\* C20 (as claimed): for every brightness value the command handler passes to
\* the dimming encoder, the published value is "02", the reversed MAC, "8900"
\* and exactly two uppercase hex digits encoding a byte in 0..255.
C20_DimmingWriteAnyBrightness ==
    DimmingCommandSent => DimmingValueAsClaimed(ret[1].cmd[1].value, arg.device)

\* Within the encoder's input range the layout holds: with the byte
\* round(b / 100 * 255) for every integer brightness b of 0..100 a Brightness
\* command carries, and with the byte 255 or 0 for an On command.
C20_DimmingWriteInRange ==
    DimmingCommandSent =>
        /\ \A b \in 0..100 :
             arg.text = HubCommandText(arg.device.id, CharBrightness, NumToString(b, 10))
             => /\ DimmingValueAsClaimed(ret[1].cmd[1].value, arg.device)
                /\ IsNearest255(DimmingByte(ret[1].cmd[1].value), b)
        /\ \A v \in OnTexts :
             arg.text = HubCommandText(arg.device.id, CharOn, v)
             => /\ DimmingValueAsClaimed(ret[1].cmd[1].value, arg.device)
                /\ DimmingByte(ret[1].cmd[1].value) \in {0, 255}

\* A Brightness command of 3 percent is written as the byte 08.
C20_InRangeReached ==
    /\ DimmingCommandSent
    /\ arg.text = HubCommandText(arg.device.id, CharBrightness, <<"3">>)
    /\ DimmingValueAsClaimed(ret[1].cmd[1].value, arg.device)
    /\ SubSeq(ret[1].cmd[1].value, 19, 20) = <<"0", "8">>

\* The handler was given an On command with the JSON value v for the drawn
\* Dimming device.
OnCommandForDimmer(v) ==
    /\ phase = "handled"
    /\ arg.kind = "command"
    /\ arg.device.type = DIMMING
    /\ arg.text = HubCommandText(arg.device.id, CharOn, v)

\* C34: an On command for a Dimming device is translated into a dimming write
\* (opcode 8900, no trailing 00), never a switch write: value true sends the
\* write for brightness 100, data byte FF, and value false the one for
\* brightness 0, data byte 00.
C34_OnForDimmerIsDimmingWrite ==
    /\ OnCommandForDimmer(<<"t", "r", "u", "e">>)
        => /\ ret[1].kind = "command"
           /\ DimmingValueAsClaimed(ret[1].cmd[1].value, arg.device)
           /\ SubSeq(ret[1].cmd[1].value, 19, 20) = <<"F", "F">>
    /\ OnCommandForDimmer(<<"f", "a", "l", "s", "e">>)
        => /\ ret[1].kind = "command"
           /\ DimmingValueAsClaimed(ret[1].cmd[1].value, arg.device)
           /\ SubSeq(ret[1].cmd[1].value, 19, 20) = <<"0", "0">>

C34_Witness ==
    /\ OnCommandForDimmer(<<"t", "r", "u", "e">>)
    /\ ret[1].kind = "command"
    /\ ret[1].cmd[1].value
          = <<"0", "2", "6", "6", "5", "5", "4", "4", "3", "3", "2", "2", "1", "1",
              "8", "9", "0", "0", "F", "F">>

----------------------------------------------------------------------------
(* Claims about hub commands and the whole broker (under SpecHub)          *)

\* The state follows the handling of a client's publish on the command topic.
AfterCommand ==
    /\ lastEvent.type = "publish"
    /\ lastEvent.topic = FromSetTopic
    /\ lastEvent.client

\* C12 (as claimed): handling a publish on the hub command topic never ends in
\* an uncaught exception or unhandled rejection, whatever the payload, and the
\* broker goes on processing events.
C12_CommandNeverRejects ==
    /\ AfterCommand => lastEvent.outcome # "rejected"
    /\ phase # "crashed"

\* The text is an On command naming device d, or a Brightness command naming
\* d when d is a Dimming device: the commands the device type accepts.
AcceptedBy(d, text) ==
    \/ \E v \in OnTexts : text = HubCommandText(d.id, CharOn, v)
    \/ /\ d.type = DIMMING
       /\ \E v \in BrightnessTexts : text = HubCommandText(d.id, CharBrightness, v)

Accepted(text) == \E i \in 1..Len(devices) : AcceptedBy(devices[i], text)

\* C13: a hub command leads to a cloud publish only if its name resolves to a
\* registry device and its characteristic fits the device type (On for Switch
\* and Dimming, Brightness for Dimming only).  The handling of a command
\* itself publishes nothing to the cloud; it leaves a handler pending only for
\* an accepted command; any other command (unknown device, Brightness for a
\* Switch, another characteristic) leaves pending handlers, cloud publishes,
\* registry and cache as they were; and a cloud publish is only ever the one
\* command of a pending handler.
C13_CloudPublishOnlyForAcceptedCommand ==
    [][ /\ commands' # commands =>
            /\ cloudPublished' = cloudPublished
            /\ devices' = devices
            /\ bleDeviceCache' = bleDeviceCache
            /\ IF Accepted(lastEvent'.payload)
               THEN \/ tasks' = tasks
                    \/ /\ Len(tasks') = Len(tasks) + 1
                       /\ SubSeq(tasks', 1, Len(tasks)) = tasks
                       /\ \E i \in 1..Len(devices) :
                             /\ AcceptedBy(devices[i], lastEvent'.payload)
                             /\ tasks'[Len(tasks')].cmd.guid = devices[i].guid
                             /\ tasks'[Len(tasks')].cmd.mac_address = devices[i].macAddress
               ELSE tasks' = tasks
        /\ cloudPublished' # cloudPublished =>
            \E i \in 1..Len(tasks) :
                /\ tasks[i].awaits = 1
                /\ cloudPublished' = Append(cloudPublished, mqttPublish(tasks[i].cmd))
                /\ Len(tasks') = Len(tasks) - 1
      ]_vars

C13_Witness ==
    /\ AfterCommand
    /\ lastEvent.payload = HubCommandText(IdM1_1, CharBrightness, <<"5", "0">>)
    /\ \E i \in 1..Len(devices) : devices[i].id = IdM1_1 /\ devices[i].type = SWITCH
    /\ lastEvent.outcome = "ignored"
    /\ tasks = <<>>
    /\ cloudPublished = <<>>
    /\ bleDeviceCache # <<>>

\* C14 (as claimed): every publish the bridge issues, discovery and status
\* publishes to the hub and write commands to the cloud, has QoS 1 and
\* retain = false.
C14_AllPublishesQos1 ==
    /\ \A i \in 1..Len(published) : published[i].qos = 1 /\ ~published[i].retain
    /\ \A i \in 1..Len(cloudPublished) : cloudPublished[i].qos = 1 /\ ~cloudPublished[i].retain

\* C17: once Build has returned, no broker event (client connect, subscribe,
\* hub command, BLE frame, resumed handler, publish completion) adds, removes
\* or modifies a device: every step from a state after start-up leaves the
\* registry as it is.
C17_RegistryReadOnlyAfterBuild ==
    [][phase # "start" => devices' = devices]_vars

C17_Witness ==
    /\ Running
    /\ devices = fromAfterLoginResp(snapshot)
    /\ Len(devices) = 4
    /\ bleDeviceCache # <<>>
    /\ cloudPublished # <<>>
    /\ lastEvent.type = "completion"
    /\ lastEvent.error

\* "cmd/" followed by the hash of the hash of the gateway id.
TopicOfGateway(gatewayId) == <<"c", "m", "d", "/", "md5:", "md5:">> \o gatewayId

\* The write command was built for a registry device, and its topic is the one
\* of that device's gateway.
TopicIsOfGateway(cmd) ==
    \E i \in 1..Len(devices) :
        /\ devices[i].guid = cmd.guid
        /\ devices[i].macAddress = cmd.mac_address
        /\ cmd.topic = TopicOfGateway(devices[i].gatewayId)

\* C28: the cloud topic of a write command is "cmd/" followed by the hash of
\* the hash of the device's gatewayId and depends on nothing else: whatever the
\* device id, type, index, MAC, requested value and earlier events, and
\* whichever encoder built it, a command is sent to the topic of its device's
\* gateway, so commands for devices of one gateway share their topic.
C28_TopicFromGatewayOnly ==
    /\ \A k \in 1..Len(tasks) : TopicIsOfGateway(tasks[k].cmd)
    /\ \A k \in 1..Len(cloudPublished) :
          /\ cloudPublished[k].topic = cloudPublished[k].data.topic
          /\ TopicIsOfGateway(cloudPublished[k].data)

C28_Witness ==
    /\ Len(cloudPublished) = 1
    /\ SubSeq(cloudPublished[1].data.value, 15, 18) = <<"8", "9", "0", "0">>
    /\ cloudPublished[1].topic = TopicOfGateway(GatewayG1)
    /\ \E i, j \in 1..Len(devices) :
          /\ devices[i].type = DIMMING /\ devices[j].type = SWITCH
          /\ devices[i].gatewayId = GatewayG1 /\ devices[j].gatewayId = GatewayG1
          /\ devices[i].guid = cloudPublished[1].data.guid
    /\ bleDeviceCache # <<>>

\* The step is the call of a publish's completion callback.
IsCompletion == lastEvent' # lastEvent /\ lastEvent'.type = "completion"

\* C29: a completion callback invoked with an error only logs: the publish is
\* not sent again, the registry and the replay cache are unchanged, and the
\* handlers' state after it is the one a successful completion leaves, so
\* that later events are handled alike.
C29_FailedPublishOnlyLogged ==
    [][IsCompletion =>
          /\ devices' = devices
          /\ bleDeviceCache' = bleDeviceCache
          /\ published' = published
          /\ cloudPublished' = cloudPublished
          /\ tasks' = tasks
          /\ phase' = phase
          /\ frames' = frames
          /\ commands' = commands]_vars

C29_Witness ==
    /\ lastEvent.type = "completion"
    /\ lastEvent.error
    /\ Len(cloudPublished) = 1
    /\ tasks = <<>>
    /\ published # <<>>
    /\ Len(bleDeviceCache) = 2

\* C30: the replay cache changes only while a client's publish on the BLE
\* ingress topic is handled: start-up, client connects, subscriptions with
\* their replay, hub commands and their resumed handlers, publishes on other
\* topics or without a client, and publish completions leave it unchanged.
C30_CacheChangesOnlyOnBlePublish ==
    [][bleDeviceCache' # bleDeviceCache =>
          /\ lastEvent'.type = "publish"
          /\ lastEvent'.topic = BleTopic
          /\ lastEvent'.client
          /\ frames' = Append(frames, lastEvent'.payload)]_vars

C30_Witness ==
    /\ lastEvent.type = "subscribe" /\ lastEvent.client
    /\ lastEvent.topic = ToWildcardTopic
    /\ Len(frames) = 2
    /\ Len(bleDeviceCache) = 2
    /\ \A k \in 1..2 : bleDeviceCache[k].value = SliceFrom(frames[k], 17)
    /\ cloudPublished # <<>>
    /\ Len(published) > Len(devices)

\* The step handles a publish event that has no originating client.
IsClientlessPublish ==
    /\ lastEvent' # lastEvent
    /\ lastEvent'.type = "publish"
    /\ ~lastEvent'.client

\* C33: a publish without an originating client, as the bridge's own discovery
\* and status publishes are, is never handled as an inbound event: it changes
\* neither the cache nor the commands and issues no publish; the cache and the
\* commands change only with a client's publish; and one event's handler
\* issues at most one discovery publish per device and two status publishes
\* per device and cached frame.
C33_OwnPublishesNotHandled ==
    [][/\ IsClientlessPublish =>
             /\ bleDeviceCache' = bleDeviceCache
             /\ frames' = frames
             /\ commands' = commands
             /\ tasks' = tasks
             /\ cloudPublished' = cloudPublished
             /\ published' = <<>>
       /\ (bleDeviceCache' # bleDeviceCache \/ commands' # commands \/ Len(tasks') > Len(tasks))
             => /\ lastEvent'.type = "publish"
                /\ lastEvent'.client
       /\ Len(published') <= Len(devices') * (1 + 2 * Max(1, Len(bleDeviceCache')))]_vars

C33_Witness ==
    /\ lastEvent.type = "publish"
    /\ ~lastEvent.client
    /\ lastEvent.topic = BleTopic
    /\ Len(bleDeviceCache) = 2
    /\ \A k \in 1..2 : bleDeviceCache[k].key # FrameMac(lastEvent.payload)
    /\ published = <<>>
    /\ tasks # <<>>

----------------------------------------------------------------------------
(* Claims about hub commands in flight (under SpecCmd)                     *)

\* A cloud publish is pending (the handler of a command is suspended at one
\* of its awaits), or the completion of one has just failed.
PendingOrFailed ==
    \/ tasks # <<>>
    \/ (lastEvent.type = "completion" /\ lastEvent.error)

\* A BLE frame arrives in the step and is handled whole: cached, then decoded
\* for every device of its MAC.
BleFrameProcessed ==
    /\ frames' = Append(frames, lastEvent'.payload)
    /\ bleDeviceCache' = cacheSet(bleDeviceCache, Slice(lastEvent'.payload, 0, 17),
                                  SliceFrom(lastEvent'.payload, 17))
    /\ published' = handleBleDeviceData(devices, Slice(lastEvent'.payload, 0, 17),
                                        SliceFrom(lastEvent'.payload, 17))

\* A hub command arrives in the step and its handler runs up to its first
\* await, where it is suspended behind the ones already pending.
HubCommandProcessed ==
    LET outcome == handleCommandPublish(devices, lastEvent'.payload)
    IN  /\ lastEvent'.outcome = outcome.kind
        /\ tasks' = IF outcome.kind = "command"
                    THEN Append(tasks, [cmd |-> outcome.cmd[1], awaits |-> AwaitsBeforePublish])
                    ELSE tasks

\* C31: while the cloud publish of a hub command is pending, or after one has
\* failed, a step never terminates event processing, and a BLE frame, a
\* subscription and a further hub command that arrive while one is pending
\* are each handled whole, the pending handlers left as they are.
C31_PendingPublishNeverBlocks ==
    [][/\ PendingOrFailed => phase' = "running"
       /\ tasks # <<>> /\ frames' # frames
             => BleFrameProcessed /\ tasks' = tasks
       /\ tasks # <<>> /\ lastEvent' # lastEvent /\ lastEvent'.type = "subscribe"
             => /\ published' = handleSubscription(devices, bleDeviceCache, lastEvent'.topic)
                /\ tasks' = tasks
       /\ tasks # <<>> /\ commands' # commands
             => HubCommandProcessed]_vars

C31_Witness ==
    /\ Len(tasks) = 2
    /\ tasks[1].awaits = AwaitsBeforePublish
    /\ Len(frames) = 2
    /\ Len(bleDeviceCache) = 1
    /\ lastEvent.type = "subscribe"
    /\ Len(published) > Len(devices)
    /\ cloudPublished = <<>>
    /\ phase = "running"

\* C32 (as claimed): cloud write commands are published in the order their
\* hub commands were received, under every interleaving of the awaited steps
\* of their handlers: each cloud publish is the one of the oldest suspended
\* handler.
C32_CloudPublishesInReceiptOrder ==
    [][cloudPublished' # cloudPublished =>
          /\ tasks # <<>>
          /\ cloudPublished' = Append(cloudPublished, mqttPublish(tasks[1].cmd))
          /\ tasks' = Tail(tasks)]_vars

====
